---- MODULE Spec2Model ----
(***************************************************************************)
(* A model of the LISP 1.5 interpreter of robpike/lisp: the evaluator of   *)
(* lisp1_5/eval.go (Eval, apply, eval, evcon, evlis over the stack of      *)
(* scopes), its elementary functions, and the read loop of main.go.        *)
(*                                                                         *)
(* The evaluator's mutual recursion runs on the Go call stack.  Here the   *)
(* call stack is the variable kont, a sequence of the activations that are *)
(* waiting for a callee, and ctl is the call (or the return) in progress;  *)
(* one action is one activation's code up to its next call or its return.  *)
(*                                                                         *)
(* The lexer (lex.go), the parser and the printer (parse.go) and the       *)
(* composite accessors are modelled as operators and run on their own, by  *)
(* the specifications SpecLex, SpecParse and SpecCadR at the end.          *)
(***************************************************************************)
EXTENDS Integers, Sequences, FiniteSets, TLC

(***************************************************************************)
(* Bounds of the model.                                                    *)
(***************************************************************************)
\* maxStackDepth (the -depth flag) is drawn from 0..MaxDepth.
MaxDepth == 4
\* The deepest recursion of the test function error: (error DeepN).
DeepN == 39
\* The Go stack is finite: no call is made with MaxFrames scopes in place.
MaxFrames == DeepN + 6

(***************************************************************************)
(* Expressions (parse.go, type Expr) and tokens (type token).  A nil *Expr *)
(* is NIL.  An atom expression holds its token; tokens other than numbers  *)
(* are interned, so a token is its text, and a number token is its value.  *)
(***************************************************************************)
NIL == [k |-> "nil"]
Atom(t) == [k |-> "atom", text |-> t]
Num(n) == [k |-> "num", num |-> n]
Cons(a, d) == [k |-> "pair", car |-> a, cdr |-> d]

atomExpr(tok) == tok

\* e.atom != nil
HasAtom(e) == e.k \in {"atom", "num"}

Car(e) == IF e.k = "pair" THEN e.car ELSE NIL

Cdr(e) == IF e.k = "pair" THEN e.cdr ELSE NIL

getAtom(e) == IF HasAtom(e) THEN e ELSE NIL

\* The type mkToken gives a text: T, F and nil were interned as constants
\* before any input was read, every other text read as a name is an atom.
Constants == {"T", "F", "nil"}

TokTyp(tok) ==
  IF tok.k = "num" THEN "tokenNumber"
  ELSE IF tok.text \in Constants THEN "tokenConst" ELSE "tokenAtom"

\* tok.text: empty for a number.
TokText(tok) == IF tok.k = "num" THEN "" ELSE tok.text

constT == Atom("T")
constF == Atom("F")
constNIL == Atom("nil")
tokLambda == Atom("λ")
tokASCIILambda == Atom("lambda")
tokQuote == Atom("quote")
tokCond == Atom("cond")
tokDefn == Atom("defn")

truthExpr(t) == IF t THEN constT ELSE constF

\* A mutation of isTrue: whatever is not F, nil or empty is true.
isTrueLoose(e) == e \notin {constF, constNIL, NIL}

isTrue(e) == e = constT

isNumber(e) == e.k = "num"

RECURSIVE length(_)
length(e) == IF e = NIL THEN 0 ELSE 1 + length(Cdr(e))

\* The list of the elements of a sequence, and (quote e).
RECURSIVE ListOf(_)
ListOf(s) == IF s = <<>> THEN NIL ELSE Cons(Head(s), ListOf(Tail(s)))

Quoted(e) == ListOf(<<tokQuote, e>>)

(***************************************************************************)
(* The letters of a name (Go indexes a string by byte).  A string is one   *)
(* value here, so its letters are looked up among the spellings of the     *)
(* names whose letters are read: those written with c, a, d and r, a few   *)
(* with another letter, and the atoms that are printed letter by letter.   *)
(***************************************************************************)
\* The longest run of a and d in the middle of a name.
MaxMiddle == 4

SeqsUpTo(S, n) == UNION {[1..m -> S] : m \in 0..n}

RECURSIVE Join(_)
Join(c) == IF c = <<>> THEN "" ELSE Head(c) \o Join(Tail(c))

NameLetters ==
  {p \o m \o s : p \in {<<>>, <<"c">>},
                 m \in SeqsUpTo({"a", "d"}, MaxMiddle),
                 s \in {<<>>, <<"r">>}}
  \cup {<<"c", "x", "r">>, <<"c", "a", "x", "r">>, <<"c", "r", "a", "r">>,
        <<"c", "a", "r", "r">>, <<"C", "a", "r">>, <<"c", "a", "R">>,
        <<"c", "c", "a", "r">>, <<"n", "i", "l">>, <<"T">>, <<"F">>,
        <<"b">>, <<"q", "u", "o", "t", "e">>, <<"E", "O", "F">>}

Spelling ==
  [s \in {Join(c) : c \in NameLetters} |->
     CHOOSE c \in NameLetters : Join(c) = s]

Chars(s) == IF s \in DOMAIN Spelling THEN Spelling[s] ELSE <<"?">>

isCadR(s) ==
  LET c == Chars(s)
  IN  /\ Len(c) >= 3
      /\ c[1] = "c"
      /\ c[Len(c)] = "r"
      /\ \A i \in 2..(Len(c) - 1) : c[i] \in {"a", "d"}

\* The keys of the map elementary, filled by evalInit.
ElementaryNames ==
  {"add", "and", "apply", "atom", "car", "cdr", "cons", "defn", "div", "eq",
   "ge", "gt", "le", "list", "lt", "mul", "ne", "null", "or", "rem", "sub"}

\* The function tied to a name, if any: its name in the map, or "cadr".
lookupElementary(tok) ==
  IF tok.k = "atom" /\ tok.text \in ElementaryNames THEN tok.text
  ELSE IF isCadR(TokText(tok)) THEN "cadr"
  ELSE "none"

(***************************************************************************)
(* Errors: the panic value Error, as the format and its first argument (an *)
(* expression; a name is the atom of that name).                           *)
(***************************************************************************)
NoErr == <<>>
Err(text) == <<text>>
ErrArg(text, arg) == <<text, arg>>

(***************************************************************************)
(* The stack of scopes.  A scope holds vars (a function from tokens to     *)
(* expressions), fn and args.  scope[1] is c.scope[0], the global scope.   *)
(***************************************************************************)
top == "<top>"

NoVars == <<>>

push(sc, fn, args) == Append(sc, [vars |-> NoVars, fn |-> fn, args |-> args])

\* A mutation of pop: the scope is not popped.
popNot(sc) == sc

pop(sc) == SubSeq(sc, 1, Len(sc) - 1)

\* A number token is a fresh pointer each time: it is never found in a map.
Bound(s, tok) == tok.k = "atom" /\ tok \in DOMAIN s.vars

\* The loop of getScope: the last scope of c.scope[i..] that holds tok, or
\* found when none does (0: nil).
RECURSIVE getScopeLoop(_, _, _, _)
getScopeLoop(sc, tok, i, found) ==
  IF i > Len(sc) THEN found
  ELSE getScopeLoop(sc, tok, i + 1, IF Bound(sc[i], tok) THEN i ELSE found)

\* A mutation of getScope: the first scope that holds tok is kept.
RECURSIVE getScopeFirstLoop(_, _, _, _)
getScopeFirstLoop(sc, tok, i, found) ==
  IF i > Len(sc) THEN found
  ELSE getScopeFirstLoop(sc, tok, i + 1,
                         IF Bound(sc[i], tok) /\ found = 0 THEN i ELSE found)

getScopeFirst(sc, tok) ==
  LET f == getScopeFirstLoop(sc, tok, 1, 0)
  IN  IF f = 0 THEN Len(sc) ELSE f

\* The index in sc of the scope getScope returns.
getScope(sc, tok) ==
  LET f == getScopeLoop(sc, tok, 1, 0)
  IN  IF f = 0 THEN Len(sc) ELSE f

\* A mutation of notConst: only nil is refused.
notConstNilOnly(tok) ==
  IF tok = constNIL THEN ErrArg("cannot set constant %s", tok) ELSE NoErr

\* notConst: the error it raises, or NoErr.
notConst(tok) ==
  IF TokTyp(tok) = "tokenConst" THEN ErrArg("cannot set constant %s", tok)
  ELSE NoErr

\* vars[tok] = expr in scope i.
Assign(sc, i, tok, expr) ==
  [sc EXCEPT ![i].vars = (tok :> expr) @@ sc[i].vars]

\* set and setLocal: the scopes after, and the error raised if any.
set(sc, tok, expr) ==
  IF notConst(tok) # NoErr THEN [scope |-> sc, err |-> notConst(tok)]
  ELSE [scope |-> Assign(sc, getScope(sc, tok), tok, expr), err |-> NoErr]

setLocal(sc, tok, expr) ==
  IF notConst(tok) # NoErr THEN [scope |-> sc, err |-> notConst(tok)]
  ELSE [scope |-> Assign(sc, Len(sc), tok, expr), err |-> NoErr]

\* get: a map read of a missing key gives nil.
get(sc, tok) ==
  IF TokTyp(tok) = "tokenNumber" THEN atomExpr(tok)
  ELSE LET s == sc[getScope(sc, tok)]
       IN  IF Bound(s, tok) THEN s.vars[tok] ELSE NIL

\* The scopes NewContext builds.
NewScope ==
  <<[vars |-> (constT :> constT) @@ (constF :> constF) @@ (constNIL :> constNIL),
     fn |-> top, args |-> NIL]>>

(***************************************************************************)
(* StackTrace: the lines it prints, a line being <<"stack:">>, <<"...">> or *)
(* the pair of a scope's fn and Car(args).  i is the loop's index into the *)
(* Go slice: c.scope[i] is sc[i + 1].                                      *)
(***************************************************************************)
TraceKeep == 20

TraceLine(s) == <<s.fn, Car(s.args)>>

RECURSIVE StackTraceLoop(_, _, _)
StackTraceLoop(sc, i, b) ==
  IF ~(i > 0) THEN b
  ELSE IF Len(sc) - i > TraceKeep /\ i > TraceKeep
       THEN StackTraceLoop(sc, TraceKeep - 1, Append(b, <<"...">>))
       ELSE StackTraceLoop(sc, i - 1,
                           IF sc[i + 1].fn # top
                           THEN Append(b, TraceLine(sc[i + 1])) ELSE b)

\* A mutation of StackTrace: outermost scope first.
RECURSIVE StackTraceUpLoop(_, _, _)
StackTraceUpLoop(sc, i, b) ==
  IF i > Len(sc) - 1 THEN b
  ELSE StackTraceUpLoop(sc, i + 1,
                        IF sc[i + 1].fn # top
                        THEN Append(b, TraceLine(sc[i + 1])) ELSE b)

StackTraceUp(sc) ==
  IF sc[Len(sc)].fn = top THEN <<>>
  ELSE StackTraceUpLoop(sc, 1, <<(<<"stack:">>)>>)

StackTrace(sc) ==
  IF sc[Len(sc)].fn = top THEN <<>>
  ELSE StackTraceLoop(sc, Len(sc) - 1, <<(<<"stack:">>)>>)

(***************************************************************************)
(* The elementary functions.  Each gives the value it returns and the      *)
(* error it raises (NoErr when it returns).                                *)
(***************************************************************************)
Ret(v) == [v |-> v, err |-> NoErr]
Raised(e) == [v |-> NIL, err |-> e]

atomFunc(expr) == truthExpr(Car(expr) # NIL /\ HasAtom(Car(expr)))

carFunc(expr) == Car(Car(expr))

cdrFunc(expr) == Cdr(Car(expr))

consFunc(expr) == Cons(Car(expr), Car(Cdr(expr)))

\* A mutation of the loop of cadrFunc: the letters are read left to right.
RECURSIVE cadrWalkForward(_, _, _)
cadrWalkForward(c, i, expr) ==
  IF ~(expr # NIL /\ i > 0) THEN expr
  ELSE cadrWalkForward(c, i - 1,
                       IF c[Len(c) - i] = "a" THEN Car(expr) ELSE Cdr(expr))

RECURSIVE cadrWalk(_, _, _)
cadrWalk(c, i, expr) ==
  IF ~(expr # NIL /\ i > 0) THEN expr
  ELSE cadrWalk(c, i - 1, IF c[i + 1] = "a" THEN Car(expr) ELSE Cdr(expr))

cadrFunc(name, expr) ==
  IF ~isCadR(TokText(name)) THEN NIL
  ELSE cadrWalk(Chars(TokText(name)), Len(Chars(TokText(name))) - 2, Car(expr))

eq(a, b) ==
  IF a = NIL \/ b = NIL THEN a = NIL /\ b = NIL
  ELSE IF ~HasAtom(a) \/ ~HasAtom(b) \/ TokTyp(a) # TokTyp(b) THEN FALSE
  ELSE IF TokTyp(a) = "tokenNumber" THEN a.num = b.num
  ELSE a = b

eqFunc(expr) == truthExpr(eq(Car(expr), Car(Cdr(expr))))

listFunc(expr) == IF expr = NIL THEN NIL ELSE Cons(Car(expr), Cdr(expr))

nullFunc(expr) == truthExpr(Car(expr) = NIL)

\* A mutation of andFunc: the first argument alone decides.
andFuncFirst(expr) == truthExpr(expr = NIL \/ isTrue(Car(expr)))

RECURSIVE andFunc(_)
andFunc(expr) ==
  IF expr = NIL THEN truthExpr(TRUE)
  ELSE IF ~isTrue(Car(expr)) THEN truthExpr(FALSE)
  ELSE andFunc(Cdr(expr))

RECURSIVE orFunc(_)
orFunc(expr) ==
  IF expr = NIL THEN truthExpr(FALSE)
  ELSE IF isTrue(Car(expr)) THEN truthExpr(TRUE)
  ELSE orFunc(Cdr(expr))

Abs(n) == IF n < 0 THEN -n ELSE n

\* big.Int.Div: Euclidean division, the remainder is never negative.
BigDiv(a, b) == IF b > 0 THEN a \div b ELSE -(a \div (-b))

\* big.Int.Rem: the remainder of the division truncated toward zero.
BigRem(a, b) == IF a < 0 THEN -(Abs(a) % Abs(b)) ELSE a % Abs(b)

\* The arithmetic and comparison functions handed to mathFunc and boolFunc.
arith(op, a, b) ==
  CASE op = "add" -> Ret(Num(a + b))
    [] op = "sub" -> Ret(Num(a - b))
    [] op = "mul" -> Ret(Num(a * b))
    [] op = "div" -> IF b = 0 THEN Raised(Err("division by zero"))
                     ELSE Ret(Num(BigDiv(a, b)))
    [] op = "rem" -> IF b = 0 THEN Raised(Err("rem by zero"))
                     ELSE Ret(Num(BigRem(a, b)))
    [] op = "ge" -> Ret(truthExpr(a >= b))
    [] op = "gt" -> Ret(truthExpr(a > b))
    [] op = "le" -> Ret(truthExpr(a <= b))
    [] op = "lt" -> Ret(truthExpr(a < b))
    [] op = "ne" -> Ret(truthExpr(a # b))

\* mathFunc and boolFunc: getNumber of each argument, then the function.
mathFunc(op, expr) ==
  IF ~isNumber(Car(expr))
  THEN Raised(ErrArg("expect number; have %s", Car(expr)))
  ELSE IF ~isNumber(Car(Cdr(expr)))
  THEN Raised(ErrArg("expect number; have %s", Car(Cdr(expr))))
  ELSE arith(op, Car(expr).num, Car(Cdr(expr)).num)

\* defnFunc's loop over the list of (name lambda) pairs: the scopes and the
\* names so far, and the error raised if any.
RECURSIVE defnLoop(_, _, _)
defnLoop(sc, expr, names) ==
  IF expr = NIL THEN [scope |-> sc, names |-> names, err |-> NoErr]
  ELSE LET fn == Car(expr)
           name == Car(fn)
           atom == getAtom(name)
       IN  IF fn = NIL
           THEN [scope |-> sc, names |-> names,
                 err |-> Err("empty function in defn")]
           ELSE IF atom = NIL
           THEN [scope |-> sc, names |-> names, err |-> Err("malformed defn")]
           ELSE \* r is c.set(atom, Car(Cdr(fn))), a value computed once
                CHOOSE after \in
                  {IF r.err # NoErr
                   THEN [scope |-> sc, names |-> Append(names, name),
                         err |-> r.err]
                   ELSE defnLoop(r.scope, Cdr(expr), Append(names, name)) :
                     r \in {set(sc, atom, Car(Cdr(fn)))}} : TRUE

\* A mutation of defnFunc: the list of names is returned reversed.
RECURSIVE Reverse(_)
Reverse(s) == IF s = <<>> THEN <<>> ELSE Append(Reverse(Tail(s)), Head(s))

defnFuncReversed(sc, expr) ==
  LET r == defnLoop(sc, Car(expr), <<>>)
  IN  [scope |-> r.scope, v |-> ListOf(Reverse(r.names)), err |-> r.err]

\* defnFunc: the scopes after, the list of the names, the error if any.
defnFunc(sc, expr) ==
  LET r == defnLoop(sc, Car(expr), <<>>)
  IN  [scope |-> r.scope, v |-> ListOf(r.names), err |-> r.err]

\* The call elem(c, fn.atom, x) of apply, for every elementary but apply and
\* defn, which are the two that use the context.
elemCall(el, tok, x) ==
  CASE el = "atom" -> Ret(atomFunc(x))
    [] el = "car" -> Ret(carFunc(x))
    [] el = "cdr" -> Ret(cdrFunc(x))
    [] el = "cons" -> Ret(consFunc(x))
    [] el = "cadr" -> Ret(cadrFunc(tok, x))
    [] el = "eq" -> Ret(eqFunc(x))
    [] el = "list" -> Ret(listFunc(x))
    [] el = "null" -> Ret(nullFunc(x))
    [] el = "and" -> Ret(andFunc(x))
    [] el = "or" -> Ret(orFunc(x))
    [] OTHER -> mathFunc(el, x)

(***************************************************************************)
(* The input the user types.  A line is a sequence of items; an item is an *)
(* expression (the value parser.List returns) or text that List refuses.   *)
(***************************************************************************)
E(e) == [k |-> "expr", e |-> e]
Bad == [k |-> "bad"]

Lam(formals, body) == ListOf(<<tokASCIILambda, ListOf(formals), body>>)
Call(name, args) == ListOf(<<Atom(name)>> \o args)

RECURSIVE DefPairs(_)
DefPairs(defs) ==
  IF defs = <<>> THEN NIL
  ELSE Cons(ListOf(<<Atom(Head(defs)[1]), Head(defs)[2]>>), DefPairs(Tail(defs)))

DefnOf(defs) == ListOf(<<tokDefn, DefPairs(defs)>>)

\* (lambda (x) (cond ((eq x 0) (div 0 0)) (T (error (sub x 1))))), the
\* function of TestStackTrace.
ErrorBody ==
  ListOf(<<tokCond,
           ListOf(<<Call("eq", <<Atom("x"), Num(0)>>),
                    Call("div", <<Num(0), Num(0)>>)>>),
           ListOf(<<constT,
                    Call("error", <<Call("sub", <<Atom("x"), Num(1)>>)>>)>>)>>)

LibDefs ==
  <<(<<"f", Lam(<<Atom("x")>>, Call("g", <<>>))>>),
    (<<"g", Lam(<<>>, Atom("x"))>>),
    (<<"sh", Lam(<<Atom("g")>>, Atom("g"))>>),
    (<<"inc", Lam(<<Atom("n")>>, Call("add", <<Atom("n"), Num(1)>>))>>),
    (<<"error", Lam(<<Atom("x")>>, ErrorBody)>>),
    (<<"loop", ListOf(<<tokLambda, ListOf(<<Atom("x")>>),
                        Call("loop", <<Atom("x")>>)>>)>>)>>

DupDefs ==
  <<(<<"one", Lam(<<Atom("a")>>, Atom("a"))>>),
    (<<"two", Lam(<<Atom("a")>>, Num(1))>>),
    (<<"one", Lam(<<Atom("a")>>, Num(2))>>)>>

ConstDefs ==
  <<(<<"T", Lam(<<>>, Num(1))>>),
    (<<"one", Lam(<<Atom("a")>>, Num(3))>>)>>

\* A defn of names that eval and apply know: an elementary and cond.
ElemDefs ==
  <<(<<"car", Lam(<<Atom("a")>>, Num(8))>>),
    (<<"cond", Lam(<<Atom("a")>>, Num(9))>>)>>

\* (lambda (a) (add 5 a)), the value of (addN 5) in the README's session.
AddFive == Lam(<<Atom("a")>>, Call("add", <<Num(5), Atom("a")>>))

\* (lambda (a b) (sub a b)).
SubTwo == Lam(<<Atom("a"), Atom("b")>>, Call("sub", <<Atom("a"), Atom("b")>>))

Clause(test, result) == ListOf(<<test, result>>)

DivZero == Call("div", <<Num(0), Num(0)>>)

\* A cond whose only true test is the sixth, and one with no true test.
CondSixth ==
  ListOf(<<tokCond, Clause(constF, Num(1)), Clause(Num(1), Num(2)),
           Clause(Quoted(Atom("a")), Num(3)),
           Clause(Quoted(ListOf(<<constT>>)), Num(4)),
           Clause(constNIL, Num(5)), Clause(constT, Num(6)),
           Clause(DivZero, Num(7))>>)

CondNone == ListOf(<<tokCond, Clause(constF, Num(1)), Clause(constNIL, Num(2))>>)

\* The lines about elementary names, unbound names, lambdas in function
\* position, cond, and and/or.
MoreLines ==
  {<<E(DefnOf(ElemDefs))>>,
   <<E(Atom("cond"))>>,
   <<E(Atom("quote"))>>,
   <<E(Atom("caddr"))>>,
   <<E(Atom("nosuch"))>>,
   <<E(Call("list", <<Atom("nosuch")>>))>>,
   <<E(Call("nosuch", <<Num(1)>>))>>,
   <<E(ListOf(<<tokCond, Clause(Atom("nosuch"), Num(1)), Clause(constT, Num(2))>>))>>,
   <<E(ListOf(<<AddFive, Num(3)>>))>>,
   <<E(ListOf(<<Call("sh", <<Num(7)>>), Num(3)>>))>>,
   <<E(Call("apply", <<Quoted(AddFive), Num(3)>>))>>,
   <<E(Call("apply", <<Quoted(SubTwo), Num(5), Num(3)>>))>>,
   <<E(CondSixth)>>,
   <<E(CondNone)>>,
   <<E(Call("and", <<>>))>>,
   <<E(Call("or", <<>>))>>,
   <<E(Call("and", <<constT, constT>>))>>,
   <<E(Call("and", <<constT, constF, constT>>))>>,
   <<E(Call("or", <<constF, constT>>))>>,
   <<E(Call("or", <<constF, Num(1)>>))>>,
   <<E(Call("and", <<constF, DivZero>>))>>,
   <<E(Call("or", <<constT, DivZero>>))>>,
   <<E(Call("null", <<constNIL>>))>>,
   <<E(Call("null", <<Quoted(NIL)>>))>>,
   <<E(Call("null", <<Call("cdr", <<Quoted(ListOf(<<Atom("a")>>))>>)>>))>>,
   <<E(Call("eq", <<constNIL, Quoted(NIL)>>))>>}

Lines ==
  MoreLines \cup
  {<<E(DefnOf(LibDefs))>>,
   <<E(DefnOf(DupDefs))>>,
   <<E(DefnOf(ConstDefs))>>,
   <<E(Call("f", <<Num(1)>>))>>,
   <<E(Call("sh", <<Num(7)>>))>>,
   <<E(Call("inc", <<Num(5)>>))>>,
   <<E(Call("one", <<Num(5)>>))>>,
   <<E(Call("error", <<Num(2)>>))>>,
   <<E(Call("error", <<Num(DeepN - 1)>>))>>,
   <<E(Call("error", <<Num(DeepN)>>))>>,
   <<E(Call("loop", <<Num(1)>>))>>,
   <<E(Call("add", <<Num(1), Num(2)>>))>>,
   <<E(Call("apply", <<Quoted(Lam(<<Atom("v"), constF>>, Atom("v"))),
                       Num(1), Num(2)>>))>>,
   <<E(Atom("car"))>>,
   <<E(Atom("one"))>>,
   <<Bad, E(Call("add", <<Num(1), Num(2)>>))>>,
   <<E(Call("error", <<Num(2)>>)), E(Call("add", <<Num(1), Num(2)>>))>>,
   <<E(Call("add", <<Num(1), Num(2)>>)), E(Call("sh", <<Num(7)>>))>>}

(***************************************************************************)
(* The state.                                                              *)
(***************************************************************************)
VARIABLES
  scope,          \* c.scope
  stackDepth,     \* c.stackDepth
  maxStackDepth,  \* c.maxStackDepth
  ctl,            \* the call being made, or the value being returned
  kont,           \* the activations waiting for it, outermost first
  pc,             \* where the read loop and its handler are
  err,            \* the Error in flight
  line,           \* what is left of the input line being read
  out,            \* what this turn of the read loop wrote to standard output
  errOut,         \* and to standard error
  cur,            \* the expression handed to Eval in this turn
  entry,          \* the global variables when it was handed to Eval
  nApply,         \* the calls of apply that passed okToCall in this turn
  errScope,       \* c.scope when the Error was raised
  test            \* a package function called on its own, as a Go test does

vars ==
  <<scope, stackDepth, maxStackDepth, ctl, kont, pc, err, line, out, errOut,
    cur, entry, nApply, errScope, test>>

Idle == [op |-> "idle"]

\* The interpreter runs: no function is being called on its own.
NoTest == [of |-> "none"]

Init ==
  /\ scope = NewScope
  /\ stackDepth = 0
  /\ maxStackDepth \in 0..MaxDepth
  /\ ctl = Idle
  /\ kont = <<>>
  /\ pc = "input"
  /\ err = NoErr
  /\ line = <<>>
  /\ out = <<>>
  /\ errOut = <<>>
  /\ cur = NIL
  /\ entry = NoVars
  /\ nApply = 0
  /\ errScope = <<>>
  /\ test = NoTest

\* The activations of kont that are calls of apply.
ApplyFrames(k) == {i \in 1..Len(k) : k[i].of = "apply"}

\* The next call or return of the evaluator.
Goto(c, k, sc) ==
  /\ ctl' = c
  /\ kont' = k
  /\ scope' = sc
  /\ pc' = "run"
  /\ UNCHANGED <<maxStackDepth, err, line, out, errOut, cur, entry, errScope,
                 test>>

\* errorf: the panic leaves the context as it is.  ctl and kont stay the
\* call that raised and its callers until the handler recovers.
Raise(e, sc) ==
  /\ ctl' = ctl
  /\ kont' = kont
  /\ scope' = sc
  /\ pc' = "panic"
  /\ err' = e
  /\ errScope' = sc
  /\ UNCHANGED <<maxStackDepth, line, out, errOut, cur, entry, test>>

Replace(k, f) == [k EXCEPT ![Len(k)] = f]
Top(k) == k[Len(k)]
Drop(k) == SubSeq(k, 1, Len(k) - 1)

(***************************************************************************)
(* apply.                                                                  *)
(***************************************************************************)
\* A mutation of okToCall: one call more than the limit is let through.
okToCallLate(name, fn, x, sc, depth) ==
  IF fn = NIL
  THEN [err |-> ErrArg("undefined: %s", Cons(Atom(name), x)),
        scope |-> sc, depth |-> depth]
  ELSE IF maxStackDepth > 0
  THEN IF depth + 1 > maxStackDepth + 1
       THEN [err |-> Err("stack too deep"),
             scope |-> push(sc, name, x), depth |-> depth + 1]
       ELSE [err |-> NoErr, scope |-> sc, depth |-> depth + 1]
  ELSE [err |-> NoErr, scope |-> sc, depth |-> depth]

\* okToCall: the error it raises if any, and the context after it.
okToCall(name, fn, x, sc, depth) ==
  IF fn = NIL
  THEN [err |-> ErrArg("undefined: %s", Cons(Atom(name), x)),
        scope |-> sc, depth |-> depth]
  ELSE IF maxStackDepth > 0
  THEN IF depth + 1 > maxStackDepth
       THEN [err |-> Err("stack too deep"),
             scope |-> push(sc, name, x), depth |-> depth + 1]
       ELSE [err |-> NoErr, scope |-> sc, depth |-> depth + 1]
  ELSE [err |-> NoErr, scope |-> sc, depth |-> depth]

\* A mutation of the binding loop: every formal is bound to the first value.
RECURSIVE BindFormalsFirst(_, _, _)
BindFormalsFirst(sc, formals, args) ==
  IF formals = NIL \/ args = NIL THEN [scope |-> sc, err |-> NoErr]
  ELSE LET r == setLocal(sc, Car(formals), Car(args))
       IN  IF r.err # NoErr THEN r
           ELSE BindFormalsFirst(r.scope, Cdr(formals), args)

\* The loop of apply that binds the formals in the scope just pushed.
RECURSIVE BindFormals(_, _, _)
BindFormals(sc, formals, args) ==
  IF args = NIL THEN [scope |-> sc, err |-> NoErr]
  ELSE LET atom == getAtom(Car(formals))
           r == setLocal(sc, atom, Car(args))
       IN  IF atom = NIL THEN [scope |-> sc, err |-> Err("no atom")]
           ELSE IF r.err # NoErr THEN r
           ELSE BindFormals(r.scope, Cdr(formals), Cdr(args))

\* apply, fn an atom: an elementary is called, another atom is evaluated.
ApplyAtom(name, fn, x) ==
  LET elem == lookupElementary(fn)
  IN  IF elem = "apply"
      THEN Goto([op |-> "apply", name |-> "applyFunc", fn |-> Car(x), x |-> Cdr(x)],
                Append(kont, [k |-> "apply.ret", of |-> "apply"]), scope)
      ELSE IF elem = "defn"
      THEN LET r == defnFunc(scope, x)
           IN  IF r.err # NoErr THEN Raise(r.err, r.scope)
               ELSE Goto([op |-> "ret", v |-> r.v], kont, r.scope)
      ELSE IF elem # "none"
      THEN LET r == elemCall(elem, fn, x)
           IN  IF r.err # NoErr THEN Raise(r.err, scope)
               ELSE Goto([op |-> "ret", v |-> r.v], kont, scope)
      ELSE IF TokTyp(fn) # "tokenAtom"
      THEN Raise(ErrArg("%s is not a function", fn), scope)
      ELSE Goto([op |-> "eval", e |-> fn],
                Append(kont, [k |-> "apply.fn", of |-> "apply",
                              name |-> name, x |-> x]), scope)

\* apply, fn a lambda expression: a scope is pushed, the formals are bound
\* in it and the body is evaluated.
ApplyLambda(name, fn, x) ==
  LET formals == Car(Cdr(fn))
      pushed == push(scope, name, x)
      r == BindFormals(pushed, formals, x)
  IN  IF length(x) # length(formals)
      THEN Raise(ErrArg("args mismatch for %s: %s %s", Atom(name)), scope)
      ELSE IF r.err # NoErr THEN Raise(r.err, r.scope)
      ELSE Goto([op |-> "eval", e |-> Car(Cdr(Cdr(fn)))],
                Append(kont, [k |-> "apply.body", of |-> "apply",
                              name |-> name, x |-> x, base |-> Len(scope)]),
                r.scope)

ApplyStep ==
  /\ pc = "run"
  /\ ctl.op = "apply"
  /\ Len(scope) < MaxFrames
  /\ LET name == ctl.name
         fn == ctl.fn
         x == ctl.x
         ok == okToCall(name, fn, x, scope, stackDepth)
     IN  /\ stackDepth' = ok.depth
         /\ IF ok.err # NoErr
            THEN Raise(ok.err, ok.scope) /\ nApply' = nApply
            ELSE /\ nApply' = nApply + 1
                 /\ IF HasAtom(fn) THEN ApplyAtom(name, fn, x)
                    ELSE IF getAtom(Car(fn)) \in {tokLambda, tokASCIILambda}
                    THEN ApplyLambda(name, fn, x)
                    ELSE Raise(ErrArg("apply failed: %s", Cons(Atom(name), x)),
                               scope)

\* apply after c.eval(fn): the value is applied.
ApplyValue ==
  /\ pc = "run"
  /\ ctl.op = "ret"
  /\ kont # <<>>
  /\ Top(kont).k = "apply.fn"
  /\ Goto([op |-> "apply", name |-> Top(kont).name, fn |-> ctl.v,
           x |-> Top(kont).x],
          Replace(kont, [k |-> "apply.ret", of |-> "apply"]), scope)
  /\ UNCHANGED <<stackDepth, nApply>>

\* apply after c.eval of the body: c.pop() and return.
ApplyReturn ==
  /\ pc = "run"
  /\ ctl.op = "ret"
  /\ kont # <<>>
  /\ Top(kont).k = "apply.body"
  /\ Goto(ctl, Drop(kont), pop(scope))
  /\ UNCHANGED <<stackDepth, nApply>>

\* return c.apply(...), return c.evcon(...), return c.eval(...): the value
\* goes to the caller's caller.
ReturnThrough ==
  /\ pc = "run"
  /\ ctl.op = "ret"
  /\ kont # <<>>
  /\ Top(kont).k \in {"apply.ret", "eval.ret", "evcon.ret"}
  /\ Goto(ctl, Drop(kont), scope)
  /\ UNCHANGED <<stackDepth, nApply>>

(***************************************************************************)
(* eval, evcon, evlis.                                                     *)
(***************************************************************************)
EvalStep ==
  /\ pc = "run"
  /\ ctl.op = "eval"
  /\ LET e == ctl.e
         atom == getAtom(Car(e))
     IN  IF e = NIL THEN Goto([op |-> "ret", v |-> NIL], kont, scope)
         ELSE IF getAtom(e) # NIL
         THEN Goto([op |-> "ret", v |-> get(scope, getAtom(e))], kont, scope)
         ELSE IF atom = NIL THEN Raise(ErrArg("cannot eval %s", e), scope)
         ELSE IF atom = tokQuote
         THEN Goto([op |-> "ret", v |-> Car(Cdr(e))], kont, scope)
         ELSE IF atom = tokCond
         THEN Goto([op |-> "evcon", x |-> Cdr(e)],
                   Append(kont, [k |-> "eval.ret", of |-> "eval"]), scope)
         ELSE Goto([op |-> "evlis", m |-> Cdr(e)],
                   Append(kont, [k |-> "eval.args", of |-> "eval",
                                 head |-> Car(e)]), scope)
  /\ UNCHANGED <<stackDepth, nApply>>

\* eval after c.evlis(Cdr(e)): the head is applied to the values.
EvalApply ==
  /\ pc = "run"
  /\ ctl.op = "ret"
  /\ kont # <<>>
  /\ Top(kont).k = "eval.args"
  /\ Goto([op |-> "apply", name |-> TokText(Top(kont).head),
           fn |-> Top(kont).head, x |-> ctl.v],
          Replace(kont, [k |-> "eval.ret", of |-> "eval"]), scope)
  /\ UNCHANGED <<stackDepth, nApply>>

EvconStep ==
  /\ pc = "run"
  /\ ctl.op = "evcon"
  /\ IF ctl.x = NIL THEN Raise(Err("no true case in cond"), scope)
     ELSE Goto([op |-> "eval", e |-> Car(Car(ctl.x))],
               Append(kont, [k |-> "evcon.test", of |-> "evcon", x |-> ctl.x]),
               scope)
  /\ UNCHANGED <<stackDepth, nApply>>

\* evcon after the test: the clause's result, or the clauses that follow.
EvconTest ==
  /\ pc = "run"
  /\ ctl.op = "ret"
  /\ kont # <<>>
  /\ Top(kont).k = "evcon.test"
  /\ Goto(IF isTrue(ctl.v)
          THEN [op |-> "eval", e |-> Car(Cdr(Car(Top(kont).x)))]
          ELSE [op |-> "evcon", x |-> Cdr(Top(kont).x)],
          Replace(kont, [k |-> "evcon.ret", of |-> "evcon"]), scope)
  /\ UNCHANGED <<stackDepth, nApply>>

EvlisStep ==
  /\ pc = "run"
  /\ ctl.op = "evlis"
  /\ IF ctl.m = NIL THEN Goto([op |-> "ret", v |-> NIL], kont, scope)
     ELSE Goto([op |-> "eval", e |-> Car(ctl.m)],
               Append(kont, [k |-> "evlis.car", of |-> "evlis", m |-> ctl.m]),
               scope)
  /\ UNCHANGED <<stackDepth, nApply>>

\* evlis after c.eval(Car(m)): the rest of the list.
EvlisRest ==
  /\ pc = "run"
  /\ ctl.op = "ret"
  /\ kont # <<>>
  /\ Top(kont).k = "evlis.car"
  /\ Goto([op |-> "evlis", m |-> Cdr(Top(kont).m)],
          Replace(kont, [k |-> "evlis.cdr", of |-> "evlis", v |-> ctl.v]),
          scope)
  /\ UNCHANGED <<stackDepth, nApply>>

\* evlis after c.evlis(Cdr(m)): the Cons of the two.
EvlisCons ==
  /\ pc = "run"
  /\ ctl.op = "ret"
  /\ kont # <<>>
  /\ Top(kont).k = "evlis.cdr"
  /\ Goto([op |-> "ret", v |-> Cons(Top(kont).v, ctl.v)], Drop(kont), scope)
  /\ UNCHANGED <<stackDepth, nApply>>

(***************************************************************************)
(* Eval and the read loop of main.go.                                      *)
(***************************************************************************)
\* input: SkipSpace finds an expression, on the line being read or on the
\* next line the user types, and parser.List parses it.
ReadExpr ==
  /\ pc = "input"
  /\ \E l \in (IF line = <<>> THEN Lines ELSE {line}) :
       /\ line' = Tail(l)
       /\ IF Head(l).k = "bad"
          THEN /\ pc' = "panic"
               /\ err' = Err("bad token in list: %q")
               /\ ctl' = Idle
               /\ cur' = NIL
          ELSE /\ pc' = "run"
               /\ err' = NoErr
               /\ ctl' = [op |-> "Eval", e |-> Head(l).e]
               /\ cur' = Head(l).e
  /\ kont' = <<>>
  /\ out' = <<>>
  /\ errOut' = <<>>
  /\ entry' = scope[1].vars
  /\ nApply' = 0
  /\ errScope' = scope
  /\ UNCHANGED <<scope, stackDepth, maxStackDepth, test>>

\* Eval.
EvalEntry ==
  /\ pc = "run"
  /\ ctl.op = "Eval"
  /\ LET expr == ctl.e
         a == getAtom(expr)
     IN  IF a # NIL
         THEN IF lookupElementary(a) # "none"
              THEN Raise(ErrArg("%s is elementary", a), scope)
              ELSE Goto([op |-> "ret", v |-> get(scope, a)], kont, scope)
         ELSE IF getAtom(Car(expr)) = tokDefn
         THEN Goto([op |-> "apply", name |-> "defn", fn |-> Car(expr),
                    x |-> Cdr(expr)], kont, scope)
         ELSE Goto([op |-> "apply", name |-> top,
                    fn |-> Cons(atomExpr(tokLambda), Cons(NIL, Cons(expr, NIL))),
                    x |-> NIL], kont, scope)
  /\ UNCHANGED <<stackDepth, nApply>>

\* input after Eval: the value is printed and the newline is read.
PrintValue ==
  /\ pc = "run"
  /\ ctl.op = "ret"
  /\ kont = <<>>
  /\ pc' = "input"
  /\ ctl' = Idle
  /\ out' = <<ctl.v>>
  /\ UNCHANGED <<scope, stackDepth, maxStackDepth, kont, err, line, errOut,
                 cur, entry, nApply, errScope, test>>

\* input at the end of standard input: os.Exit(0).
Exit ==
  /\ pc = "input"
  /\ line = <<>>
  /\ pc' = "exit"
  /\ UNCHANGED <<scope, stackDepth, maxStackDepth, ctl, kont, err, line, out,
                 errOut, cur, entry, nApply, errScope, test>>

\* A mutation of PopStack: the frames are kept.
PopStackKeep(sc) == sc

\* PopStack: the scopes it leaves.
PopStack(sc) == <<sc[1]>>

\* handler, statement by statement: recover and print the Error,
HandlerPrint ==
  /\ pc = "panic"
  /\ pc' = "skip"
  /\ ctl' = Idle
  /\ kont' = <<>>
  /\ errOut' = <<err>>
  /\ UNCHANGED <<scope, stackDepth, maxStackDepth, err, line, out, cur, entry,
                 nApply, errScope, test>>

\* parser.SkipToEndOfLine(),
HandlerSkip ==
  /\ pc = "skip"
  /\ pc' = "trace"
  /\ line' = <<>>
  /\ UNCHANGED <<scope, stackDepth, maxStackDepth, ctl, kont, err, out, errOut,
                 cur, entry, nApply, errScope, test>>

\* print context.StackTrace(),
HandlerTrace ==
  /\ pc = "trace"
  /\ pc' = "reset"
  /\ errOut' = Append(errOut, StackTrace(scope))
  /\ UNCHANGED <<scope, stackDepth, maxStackDepth, ctl, kont, err, line, out,
                 cur, entry, nApply, errScope, test>>

\* context.PopStack(); input returns and main calls it again.
HandlerPop ==
  /\ pc = "reset"
  /\ pc' = "input"
  /\ stackDepth' = 0
  /\ scope' = PopStack(scope)
  /\ UNCHANGED <<maxStackDepth, ctl, kont, err, line, out, errOut, cur, entry,
                 nApply, errScope, test>>

Next ==
  \/ ReadExpr
  \/ EvalEntry
  \/ ApplyStep
  \/ ApplyValue
  \/ ApplyReturn
  \/ ReturnThrough
  \/ EvalStep
  \/ EvalApply
  \/ EvconStep
  \/ EvconTest
  \/ EvlisStep
  \/ EvlisRest
  \/ EvlisCons
  \/ PrintValue
  \/ Exit
  \/ HandlerPrint
  \/ HandlerSkip
  \/ HandlerTrace
  \/ HandlerPop

Spec == Init /\ [][Next]_vars

\* The evaluator runs on while it can, and the handler runs to its end; the
\* user may stop typing.
Run ==
  \/ EvalEntry
  \/ ApplyStep
  \/ ApplyValue
  \/ ApplyReturn
  \/ ReturnThrough
  \/ EvalStep
  \/ EvalApply
  \/ EvconStep
  \/ EvconTest
  \/ EvlisStep
  \/ EvlisRest
  \/ EvlisCons
  \/ PrintValue
  \/ HandlerPrint
  \/ HandlerSkip
  \/ HandlerTrace
  \/ HandlerPop

SpecFair == Spec /\ WF_vars(Run)

(***************************************************************************)
(* What the properties below speak of.                                     *)
(***************************************************************************)
\* The scopes that bind tok.
BindersOf(sc, tok) == {i \in 1..Len(sc) : Bound(sc[i], tok)}

Max(S) == CHOOSE m \in S : \A n \in S : n <= m
Min(S) == CHOOSE m \in S : \A n \in S : m <= n

\* The elements of a list.
RECURSIVE SeqOf(_)
SeqOf(e) == IF e.k # "pair" THEN <<>> ELSE <<e.car>> \o SeqOf(e.cdr)

\* An atom other than a number is being looked up by eval.
LookingUp == pc = "run" /\ ctl.op = "eval" /\ ctl.e.k = "atom"

\* The lambda activations in progress, outermost first: those of kont that
\* wait for their body.
LambdaFrames(k) == SelectSeq(k, LAMBDA f : f.k = "apply.body")

\* Their lines in a trace, innermost first, <top> left out.
RECURSIVE LiveLines(_)
LiveLines(fs) ==
  IF fs = <<>> THEN <<>>
  ELSE LET f == fs[Len(fs)]
           rest == LiveLines(SubSeq(fs, 1, Len(fs) - 1))
       IN  IF f.name = top THEN rest ELSE <<(<<f.name, Car(f.x)>>)>> \o rest

\* The call of apply in ctl raised while it bound its formals, its scope
\* pushed: the only errors apply raises between its push and its pop.
InLambdaBinding ==
  /\ pc = "panic"
  /\ ctl.op = "apply"
  /\ ctl.fn.k = "pair"
  /\ err[1] \in {"cannot set constant %s", "no atom"}

\* The applications of a lambda in progress, outermost first.
Activations ==
  LambdaFrames(kont)
    \o (IF InLambdaBinding THEN <<[name |-> ctl.name, x |-> ctl.x]>> ELSE <<>>)

Header == <<(<<"stack:">>)>>

WithHeader(ls) == IF ls = <<>> THEN <<>> ELSE Header \o ls

TooDeep == pc = "panic" /\ err = Err("stack too deep")

(***************************************************************************)
(* C1.  While a lambda's body is evaluated, an atom that is neither bound  *)
(* in that lambda's own scope (a formal) nor in the global scope is never  *)
(* read from the scope of a caller: the scope the lookup selects is the    *)
(* callee's own or the global one.                                         *)
(***************************************************************************)
C1_CalleeCannotReadCaller ==
  (LookingUp /\ ~Bound(scope[Len(scope)], ctl.e) /\ ~Bound(scope[1], ctl.e))
    => getScope(scope, ctl.e) \in {1, Len(scope)}

DefinedBy(e) ==
  IF getAtom(Car(e)) = tokDefn
  THEN {Car(SeqOf(Car(Cdr(e)))[i]) : i \in 1..Len(SeqOf(Car(Cdr(e))))}
  ELSE {}

Returned == pc = "input" /\ out # <<>>

C3_AfterEval ==
  Returned =>
    /\ Len(scope) = 1
    /\ \A a \in DOMAIN scope[1].vars :
         \/ a \in DefinedBy(cur)
         \/ a \in DOMAIN entry /\ scope[1].vars[a] = entry[a]

C3_AfterApply ==
  (pc = "run" /\ ctl.op = "ret" /\ kont # <<>> /\ Top(kont).k = "apply.body")
    => scope' = SubSeq(scope, 1, Top(kont).base)

C3_ScopesRestored == [](C3_AfterEval) /\ [][C3_AfterApply]_vars

\* (sh 7) has returned: its lambda bound the formal g, a global's name.
C3_Witness ==
  Returned /\ cur = Call("sh", <<Num(7)>>) /\ out = <<Num(7)>>

(***************************************************************************)
(* C4.  T, F and nil are bound to themselves in the global scope and in no *)
(* other scope, whatever was evaluated; and an apply that comes to bind a  *)
(* constant, as a name of defn or as a formal of a lambda, raises "cannot  *)
(* set constant" and binds it nowhere.                                     *)
(***************************************************************************)
ConstAtoms == {constT, constF, constNIL}

C4_ConstantsKept ==
  /\ \A c \in ConstAtoms : Bound(scope[1], c) /\ scope[1].vars[c] = c
  /\ \A i \in 2..Len(scope) : \A c \in ConstAtoms : ~Bound(scope[i], c)

\* The first of the atoms of s to be bound is the constant c: those before
\* it are atoms that are not constants.
FirstConst(s, c) ==
  \E i \in 1..Len(s) :
    /\ s[i] = c
    /\ \A j \in 1..(i - 1) : s[j].k = "atom" /\ s[j] \notin ConstAtoms

\* The call of apply in ctl comes to bind the constant c.
BindsConst(c) ==
  /\ pc = "run"
  /\ ctl.op = "apply"
  /\ \/ /\ ctl.fn = tokDefn
        /\ \A p \in 1..Len(SeqOf(Car(ctl.x))) : SeqOf(Car(ctl.x))[p] # NIL
        /\ FirstConst([p \in 1..Len(SeqOf(Car(ctl.x))) |->
                         Car(SeqOf(Car(ctl.x))[p])], c)
     \/ /\ getAtom(Car(ctl.fn)) \in {tokLambda, tokASCIILambda}
        /\ length(ctl.x) = length(Car(Cdr(ctl.fn)))
        /\ FirstConst(SeqOf(Car(Cdr(ctl.fn))), c)

C4_BindRefused ==
  \A c \in ConstAtoms :
    (BindsConst(c) /\ nApply' = nApply + 1)
      => /\ pc' = "panic"
         /\ err' = ErrArg("cannot set constant %s", c)

C4_ConstantsNotRebound == [](C4_ConstantsKept) /\ [][C4_BindRefused]_vars

\* The lambda with the formals (v F) was applied to two values.
C4_Witness ==
  /\ pc = "panic"
  /\ err = ErrArg("cannot set constant %s", constF)
  /\ Len(scope) = 3
  /\ Bound(scope[3], Atom("v"))

(***************************************************************************)
(* C5.  With a positive limit, "stack too deep" is raised only when the    *)
(* calls of apply in progress, the one that raises it counted, are more    *)
(* than the limit.                                                         *)
(***************************************************************************)
C5_DeepOnlyWhenNested ==
  (TooDeep /\ maxStackDepth > 0)
    => Cardinality(ApplyFrames(kont)) + 1 > maxStackDepth

(***************************************************************************)
(* C6.  With a positive limit D, no evaluation makes more than D calls of  *)
(* apply that pass okToCall; the call that raises "stack too deep" is the  *)
(* innermost scope, with its name and its arguments, and unless it is the  *)
(* <top> call of Eval it is the first line of the trace; and once Eval is  *)
(* called with (loop 1), loop being the lambda that calls itself whatever  *)
(* its argument, the evaluation comes to raise "stack too deep".           *)
(***************************************************************************)
LoopCall == Call("loop", <<Num(1)>>)

LoopLambda == ListOf(<<tokLambda, ListOf(<<Atom("x")>>), Call("loop", <<Atom("x")>>)>>)

C6_Bounded == maxStackDepth > 0 => nApply <= maxStackDepth

C6_OverflowPushed ==
  TooDeep =>
    /\ ctl.op = "apply"
    /\ scope[Len(scope)] = [vars |-> NoVars, fn |-> ctl.name, args |-> ctl.x]
    /\ ctl.name # top =>
         /\ Len(StackTrace(scope)) >= 2
         /\ StackTrace(scope)[2] = <<ctl.name, Car(ctl.x)>>

C6_LoopCalled ==
  /\ pc = "run"
  /\ ctl.op = "Eval"
  /\ ctl.e = LoopCall
  /\ maxStackDepth > 0
  /\ Bound(scope[1], Atom("loop"))
  /\ scope[1].vars[Atom("loop")] = LoopLambda

C6_LoopOverflowed == TooDeep /\ cur = LoopCall

C6_RecursionEnds ==
  /\ [](C6_Bounded /\ C6_OverflowPushed)
  /\ C6_LoopCalled ~> C6_LoopOverflowed

\* (loop 1) has raised "stack too deep" at a call of loop by loop.
C6_Witness ==
  /\ C6_LoopOverflowed
  /\ ctl.name = "loop"
  /\ Len(LambdaFrames(kont)) >= 2
  /\ nApply = maxStackDepth

(***************************************************************************)
(* C7, as stated.  When an error is raised in nested lambda calls, at most *)
(* 40 deep, the trace is the lambda activations in progress, innermost     *)
(* first, each as (name first-argument), <top> left out: no call of an     *)
(* elementary function adds a line.  A call of a defined function that     *)
(* raises "stack too deep" is taken as in progress.                        *)
(***************************************************************************)
OverflowedCall ==
  IF TooDeep /\ ~(HasAtom(ctl.fn) /\ lookupElementary(ctl.fn) # "none")
  THEN <<[name |-> ctl.name, x |-> ctl.x]>>
  ELSE <<>>

C7_OnlyLambdaActivations ==
  (pc = "panic" /\ LiveLines(Activations) # <<>>
               /\ Len(Activations) < 2 * TraceKeep)
    => StackTrace(scope) = WithHeader(LiveLines(Activations \o OverflowedCall))

(***************************************************************************)
(* C7, amended.  When an error is raised with at most 40 scopes above the  *)
(* global one, the trace is the lambda activations in progress, innermost  *)
(* first, each as (name first-argument), <top> left out; when the error is *)
(* "stack too deep" the call that raised it, a lambda's or an elementary   *)
(* function's, is one line more before them, and if that call is the <top> *)
(* call of Eval the trace is empty.                                        *)
(***************************************************************************)
C7_ActivationsAndOverflow ==
  (pc = "panic" /\ Len(scope) - 1 <= 2 * TraceKeep)
    => StackTrace(scope) =
         IF ~TooDeep THEN WithHeader(LiveLines(Activations))
         ELSE IF ctl.name = top THEN <<>>
         ELSE Header \o <<(<<ctl.name, Car(ctl.x)>>)>>
                \o LiveLines(Activations)

\* (error n) has divided by zero with 40 scopes above the global one.
C7_Witness ==
  /\ pc = "panic"
  /\ err = Err("division by zero")
  /\ Len(scope) - 1 = 2 * TraceKeep
  /\ Len(StackTrace(scope)) = 2 * TraceKeep

(***************************************************************************)
(* C8.  With more than 40 scopes above the global one the trace is the 20  *)
(* innermost scopes, one "..." line, then the 20 outermost scopes above    *)
(* the global one (<top>, as ever, without a line); with 40 or fewer there *)
(* is no "..." line and every scope but <top> has its line.                *)
(***************************************************************************)
TraceLines(sc, from, to) ==
  LET idx == SelectSeq([j \in 1..(from - to + 1) |-> from + 1 - j],
                       LAMBDA i : sc[i].fn # top)
  IN  [j \in 1..Len(idx) |-> TraceLine(sc[idx[j]])]

C8_TwentyEachSide ==
  pc = "trace" =>
    LET n == Len(scope)
    IN  StackTrace(scope) =
          IF scope[n].fn = top THEN <<>>
          ELSE IF n - 1 > 2 * TraceKeep
          THEN Header \o TraceLines(scope, n, n - TraceKeep + 1)
                 \o <<(<<"...">>)>> \o TraceLines(scope, TraceKeep + 1, 2)
          ELSE Header \o TraceLines(scope, n, 2)

(***************************************************************************)
(* C9.  handler deals with an Error in this order: the message is printed; *)
(* the rest of the line is discarded; the trace of the scopes there were   *)
(* when the error was raised is printed; then the context is reset.  After *)
(* the reset the only scope is the global one, with the definitions it had *)
(* when the error was raised, the depth counter is zero, and the program   *)
(* has not exited: it reads the next line.                                 *)
(***************************************************************************)
Handled == pc = "input" /\ err # NoErr

C9_Stages ==
  /\ pc = "skip" => errOut = <<err>> /\ scope = errScope
  /\ pc = "trace" => errOut = <<err>> /\ scope = errScope /\ line = <<>>
  /\ pc = "reset" =>
       /\ errOut = <<err, StackTrace(errScope)>>
       /\ scope = errScope
       /\ line = <<>>
  /\ Handled =>
       /\ errOut = <<err, StackTrace(errScope)>>
       /\ line = <<>>
       /\ scope = <<errScope[1]>>
       /\ stackDepth = 0
       /\ out = <<>>
       /\ ENABLED ReadExpr

C9_Order ==
  /\ pc = "panic" => pc' = "skip"
  /\ pc = "skip" => pc' = "trace"
  /\ pc = "trace" => pc' = "reset"
  /\ pc = "reset" => pc' = "input"

C9_ErrorHandled == [](C9_Stages) /\ [][C9_Order]_vars

\* An error raised three lambdas deep, on a line with more text after the
\* expression, has been handled.
C9_Witness ==
  /\ Handled
  /\ cur = Call("error", <<Num(2)>>)
  /\ Len(errScope) = 5
  /\ Len(errOut[2]) = 4
  /\ stackDepth = 0
  /\ Len(scope) = 1

(***************************************************************************)
(* C10.  A defn at the top level that returns has bound, in the global     *)
(* scope, each name to the last lambda given for it, the pairs taken in    *)
(* the order of the input; its value is the list of the names in that      *)
(* order, a name given twice being twice in it; and from then on a call of *)
(* a name bound in the global scope only applies the lambda bound to it.   *)
(***************************************************************************)
PairsOf(e) == SeqOf(Car(Cdr(e)))

LastFor(ps, a) ==
  Car(Cdr(ps[Max({i \in 1..Len(ps) : Car(ps[i]) = a})]))

C10_Bound ==
  (Returned /\ getAtom(Car(cur)) = tokDefn) =>
    LET ps == PairsOf(cur)
        names == {Car(ps[i]) : i \in 1..Len(ps)}
    IN  /\ out = <<ListOf([i \in 1..Len(ps) |-> Car(ps[i])])>>
        /\ DOMAIN scope[1].vars = DOMAIN entry \cup names
        /\ \A a \in names : scope[1].vars[a] = LastFor(ps, a)
        /\ \A a \in DOMAIN entry \ names : scope[1].vars[a] = entry[a]

C10_Applied ==
  (/\ pc = "run"
   /\ ctl.op = "apply"
   /\ ctl.fn.k = "pair"
   /\ BindersOf(scope, Atom(ctl.name)) = {1})
    => ctl.fn = scope[1].vars[Atom(ctl.name)]

C10_OneIsLast ==
  (Returned /\ cur = Call("one", <<Num(5)>>) /\ Atom("one") \in DOMAIN entry)
    => out = <<Num(2)>>

RegistryNames == ElementaryNames \cup {"cond", "quote"}

\* Eval was handed the atom and has returned or raised.
EvalOfAtomDone ==
  /\ cur.k = "atom"
  /\ ~(pc = "run" /\ ctl.op = "Eval")

C11_ElementaryRefused ==
  (EvalOfAtomDone /\ (cur.text \in RegistryNames \/ isCadR(cur.text)))
    => /\ err = ErrArg("%s is elementary", cur)
       /\ out = <<>>
       /\ ~(pc = "run" /\ ctl.op = "ret")

(***************************************************************************)
(* C12.  An ordinary identifier (not a constant, not a number, not a name  *)
(* eval or apply knows) that no scope binds raises an error wherever it is *)
(* evaluated: handed to Eval, evaluated by eval as an argument or a test,  *)
(* or applied as a function; no value is returned for it.                  *)
(***************************************************************************)
Ordinary(e) ==
  /\ e.k = "atom"
  /\ TokTyp(e) = "tokenAtom"
  /\ lookupElementary(e) = "none"
  /\ e \notin {tokQuote, tokCond, tokLambda, tokASCIILambda}

Unbound(e) == Ordinary(e) /\ BindersOf(scope, e) = {}

\* Value position: Eval or eval is called with the identifier.
C12_Value ==
  (pc = "run" /\ ctl.op \in {"Eval", "eval"} /\ Unbound(ctl.e))
    => pc' = "panic"

\* Function position: the value of the identifier, nil, comes to be applied.
C12_Function ==
  (pc = "run" /\ ctl.op = "apply" /\ ctl.fn = NIL)
    => /\ pc' = "panic"
       /\ err' = ErrArg("undefined: %s", Cons(Atom(ctl.name), ctl.x))

C12_UnboundRaises == [][C12_Value /\ C12_Function]_vars

(***************************************************************************)
(* C13.  eval of a pair whose head is a pair raises "cannot eval" and      *)
(* applies nothing; the elementary apply, handed a lambda expression and n *)
(* values, pushes a scope in which the n formals are bound to the values,  *)
(* in order, and evaluates the body there, and the value of the body is    *)
(* the value of the call of apply.                                         *)
(***************************************************************************)
IsLambda(fn) ==
  fn.k = "pair" /\ getAtom(Car(fn)) \in {tokLambda, tokASCIILambda}

C13_PairHead ==
  (pc = "run" /\ ctl.op = "eval" /\ ctl.e.k = "pair" /\ Car(ctl.e).k = "pair")
    => /\ pc' = "panic"
       /\ err' = ErrArg("cannot eval %s", ctl.e)
       /\ scope' = scope
       /\ kont' = kont
       /\ nApply' = nApply

C13_ApplyBinds ==
  (/\ pc = "run"
   /\ ctl.op = "apply"
   /\ ctl.name = "applyFunc"
   /\ IsLambda(ctl.fn)
   /\ nApply' = nApply + 1
   /\ pc' = "run")
    => LET formals == SeqOf(Car(Cdr(ctl.fn)))
           args == SeqOf(ctl.x)
           new == scope'[Len(scope')]
       IN  /\ Len(formals) = Len(args)
           /\ scope' = Append(scope, new)
           /\ DOMAIN new.vars = {formals[i] : i \in 1..Len(formals)}
           /\ \A i \in 1..Len(formals) :
                (\A j \in (i + 1)..Len(formals) : formals[j] # formals[i])
                  => new.vars[formals[i]] = args[i]
           /\ ctl' = [op |-> "eval", e |-> Car(Cdr(Cdr(ctl.fn)))]

C13_BodyValue ==
  (pc = "run" /\ ctl.op = "ret" /\ kont # <<>>
              /\ Top(kont).k \in {"apply.body", "apply.ret"})
    => ctl' = ctl /\ pc' = "run"

C13_AddFive ==
  /\ (Returned /\ cur = Call("apply", <<Quoted(AddFive), Num(3)>>))
       => out = <<Num(8)>>
  /\ (Returned /\ cur = Call("apply", <<Quoted(SubTwo), Num(5), Num(3)>>))
       => out = <<Num(2)>>

C13_LambdaNeedsApply ==
  /\ [](C13_AddFive)
  /\ [][C13_PairHead /\ C13_ApplyBinds /\ C13_BodyValue]_vars

\* (apply '(lambda (a) (add 5 a)) 3) has returned 8.
C13_Witness ==
  /\ Returned
  /\ cur = Call("apply", <<Quoted(AddFive), Num(3)>>)
  /\ out = <<Num(8)>>
  /\ nApply >= 3

\* ((lambda (a) (add 5 a)) 3) has raised "cannot eval".
C13_WitnessPairHead ==
  /\ pc = "panic"
  /\ cur = ListOf(<<AddFive, Num(3)>>)
  /\ err = ErrArg("cannot eval %s", cur)

(***************************************************************************)
(* C14.  evcon takes the clauses in order: it evaluates the test of the    *)
(* first; if the value is the constant T it evaluates the result of that   *)
(* clause, whose value is the value of the cond, and no later clause is    *)
(* evaluated; any other value (F, nil, a number, a list, another atom)     *)
(* sends it to the clauses that follow; with no clause left it raises "no  *)
(* true case in cond".                                                     *)
(***************************************************************************)
C14_First ==
  (pc = "run" /\ ctl.op = "evcon" /\ ctl.x # NIL)
    => /\ pc' = "run"
       /\ ctl' = [op |-> "eval", e |-> Car(Car(ctl.x))]
       /\ Top(kont') = [k |-> "evcon.test", of |-> "evcon", x |-> ctl.x]

C14_Tested ==
  (pc = "run" /\ ctl.op = "ret" /\ kont # <<>> /\ Top(kont).k = "evcon.test")
    => /\ pc' = "run"
       /\ Len(kont') = Len(kont)
       /\ Top(kont') = [k |-> "evcon.ret", of |-> "evcon"]
       /\ ctl' = IF ctl.v = constT
                 THEN [op |-> "eval", e |-> Car(Cdr(Car(Top(kont).x)))]
                 ELSE [op |-> "evcon", x |-> Cdr(Top(kont).x)]

C14_None ==
  (pc = "run" /\ ctl.op = "evcon" /\ ctl.x = NIL)
    => pc' = "panic" /\ err' = Err("no true case in cond")

C14_Value ==
  (pc = "run" /\ ctl.op = "ret" /\ kont # <<>> /\ Top(kont).k = "evcon.ret")
    => ctl' = ctl /\ pc' = "run"

C14_Lines ==
  /\ cur = CondSixth =>
       /\ pc = "panic" => err = Err("stack too deep")
       /\ Returned => out = <<Num(6)>>
  /\ cur = CondNone =>
       /\ ~Returned
       /\ pc = "panic" => err \in {Err("no true case in cond"),
                                  Err("stack too deep")}

C14_FirstTrueClause ==
  /\ [](C14_Lines)
  /\ [][C14_First /\ C14_Tested /\ C14_None /\ C14_Value]_vars

\* The cond whose sixth test is the first to be T has returned.
C14_Witness == Returned /\ cur = CondSixth /\ out = <<Num(6)>>

(***************************************************************************)
(* C19.  and returns T when every one of its values is the constant T (so  *)
(* with no value) and F otherwise; or returns T when one of its values is  *)
(* T and F otherwise (so with no value).  The values are those of all the  *)
(* arguments, evaluated by evlis from left to right before and or or is    *)
(* applied, so an argument that raises an error makes the whole form raise *)
(* it, whatever the arguments before it.                                   *)
(***************************************************************************)
AndOr == {Atom("and"), Atom("or")}

C19_Result ==
  (pc = "run" /\ ctl.op = "apply" /\ ctl.fn \in AndOr /\ nApply' = nApply + 1)
    => LET v == SeqOf(ctl.x)
           allT == \A i \in 1..Len(v) : v[i] = constT
           someT == \E i \in 1..Len(v) : v[i] = constT
       IN  /\ pc' = "run"
           /\ ctl' = [op |-> "ret",
                      v |-> IF ctl.fn = Atom("and")
                            THEN (IF allT THEN constT ELSE constF)
                            ELSE (IF someT THEN constT ELSE constF)]

\* eval hands all the arguments to evlis before it applies the head,
C19_ArgsFirst ==
  (pc = "run" /\ ctl.op = "eval" /\ Car(ctl.e) \in AndOr)
    => /\ ctl' = [op |-> "evlis", m |-> Cdr(ctl.e)]
       /\ Top(kont') = [k |-> "eval.args", of |-> "eval", head |-> Car(ctl.e)]

\* evlis evaluates the first of the list, then the rest, then conses,
C19_LeftToRight ==
  /\ (pc = "run" /\ ctl.op = "evlis" /\ ctl.m # NIL)
       => ctl' = [op |-> "eval", e |-> Car(ctl.m)]
  /\ (pc = "run" /\ ctl.op = "ret" /\ kont # <<>> /\ Top(kont).k = "evlis.car")
       => /\ ctl' = [op |-> "evlis", m |-> Cdr(Top(kont).m)]
          /\ Top(kont') = [k |-> "evlis.cdr", of |-> "evlis", v |-> ctl.v]
  /\ (pc = "run" /\ ctl.op = "ret" /\ kont # <<>> /\ Top(kont).k = "evlis.cdr")
       => ctl' = [op |-> "ret", v |-> Cons(Top(kont).v, ctl.v)]

\* and the head is applied to the list of all the values.
C19_AllValues ==
  (pc = "run" /\ ctl.op = "ret" /\ kont # <<>> /\ Top(kont).k = "eval.args")
    => /\ ctl'.op = "apply"
       /\ ctl'.fn = Top(kont).head
       /\ ctl'.x = ctl.v

C19_Lines ==
  /\ cur \in {Call("and", <<constF, DivZero>>), Call("or", <<constT, DivZero>>)}
       => /\ ~Returned
          /\ pc = "panic" => err \in {Err("division by zero"),
                                     Err("stack too deep")}
  /\ Returned =>
       /\ cur = Call("and", <<>>) => out = <<constT>>
       /\ cur = Call("or", <<>>) => out = <<constF>>
       /\ cur = Call("and", <<constT, constT>>) => out = <<constT>>
       /\ cur = Call("and", <<constT, constF, constT>>) => out = <<constF>>
       /\ cur = Call("or", <<constF, constT>>) => out = <<constT>>
       /\ cur = Call("or", <<constF, Num(1)>>) => out = <<constF>>

C19_AndOrOverValues ==
  /\ [](C19_Lines)
  /\ [][C19_Result /\ C19_ArgsFirst /\ C19_LeftToRight /\ C19_AllValues]_vars

\* (and F (div 0 0)) has raised the error of its second argument.
C19_Witness ==
  /\ pc = "panic"
  /\ cur = Call("and", <<constF, DivZero>>)
  /\ err = Err("division by zero")

(***************************************************************************)
(* The package's functions called on their own.  A test holds no Context   *)
(* and runs no read loop: the interpreter's variables stay as they start.  *)
(***************************************************************************)
interpreter ==
  <<scope, stackDepth, maxStackDepth, ctl, kont, pc, err, line, out, errOut,
    cur, entry, nApply, errScope>>

NoInterpreter ==
  /\ scope = NewScope
  /\ stackDepth = 0
  /\ maxStackDepth = 0
  /\ ctl = Idle
  /\ kont = <<>>
  /\ pc = "input"
  /\ err = NoErr
  /\ line = <<>>
  /\ out = <<>>
  /\ errOut = <<>>
  /\ cur = NIL
  /\ entry = NoVars
  /\ nApply = 0
  /\ errScope = <<>>

Pairs(S) == {Cons(a, d) : a \in S, d \in S}

(***************************************************************************)
(* The composite accessors: a name is looked up as apply looks it up, and  *)
(* the function found is called with the list of one argument x.           *)
(***************************************************************************)
\* ((1 2) (3 4) ((5 6)) (7 8)), the argument of the examples of eval_test.go.
CaddrList ==
  ListOf(<<ListOf(<<Num(1), Num(2)>>), ListOf(<<Num(3), Num(4)>>),
           ListOf(<<ListOf(<<Num(5), Num(6)>>)>>),
           ListOf(<<Num(7), Num(8)>>)>>)

CadrLeaves == {NIL, Atom("a"), Num(1)}

CadrArgs ==
  LET small == CadrLeaves \cup Pairs(CadrLeaves)
  IN  small \cup Pairs(small) \cup {CaddrList, Cdr(CaddrList)}

InitCadR ==
  /\ NoInterpreter
  /\ \E c \in NameLetters, x \in CadrArgs :
       test = [of |-> "cadr", at |-> "lookup", letters |-> c,
               name |-> Atom(Join(c)), x |-> x]

\* elem := lookupElementary(fn.atom)
CadrLookup ==
  /\ test.of = "cadr"
  /\ test.at = "lookup"
  /\ test' = [of |-> "cadr", at |-> "found", letters |-> test.letters,
              name |-> test.name, x |-> test.x,
              elem |-> lookupElementary(test.name)]
  /\ UNCHANGED interpreter

\* return elem(c, fn.atom, x), when there is an elem.
CadrCall ==
  /\ test.of = "cadr"
  /\ test.at = "found"
  /\ test.elem # "none"
  /\ test' = [of |-> "cadr", at |-> "called", letters |-> test.letters,
              name |-> test.name, x |-> test.x, elem |-> test.elem,
              r |-> elemCall(test.elem, test.name, ListOf(<<test.x>>))]
  /\ UNCHANGED interpreter

NextCadR == CadrLookup \/ CadrCall

SpecCadR == InitCadR /\ [][NextCadR]_vars

(***************************************************************************)
(* C18.  A name is dispatched as a composite accessor exactly when it is   *)
(* c, one or more letters each a or d, then r; for every such name and     *)
(* every argument x the result is car applied for each a and cdr for each  *)
(* d, the middle letters read right to left, so caaddr x is                *)
(* car(car(cdr(cdr x))); car and cdr of an atom or of empty are empty.     *)
(***************************************************************************)
\* The runs of a and d of which c...r is in NameLetters.
Middles == SeqsUpTo({"a", "d"}, MaxMiddle) \ {<<>>}

AccessorName(c) == \E m \in Middles : c = <<"c">> \o m \o <<"r">>

MiddleOf(c) == SubSeq(c, 2, Len(c) - 1)

\* car and cdr as the claim has them.
CarOf(x) == IF x = NIL \/ HasAtom(x) THEN NIL ELSE x.car
CdrOf(x) == IF x = NIL \/ HasAtom(x) THEN NIL ELSE x.cdr

\* The first letter is the outermost application.
RECURSIVE Compose(_, _)
Compose(m, x) ==
  IF m = <<>> THEN x
  ELSE IF Head(m) = "a" THEN CarOf(Compose(Tail(m), x))
  ELSE CdrOf(Compose(Tail(m), x))

C18_CompositeAccessor ==
  test.of = "cadr" =>
    /\ test.at # "lookup"
         => (test.elem \in {"car", "cdr", "cadr"} <=> AccessorName(test.letters))
    /\ (test.at = "called" /\ AccessorName(test.letters))
         => test.r = Ret(Compose(MiddleOf(test.letters), test.x))

\* caaddr of ((1 2) (3 4) ((5 6)) (7 8)) has given (5 6).
C18_Witness ==
  /\ test.of = "cadr"
  /\ test.at = "called"
  /\ test.letters = <<"c", "a", "a", "d", "d", "r">>
  /\ test.x = CaddrList
  /\ test.r = Ret(ListOf(<<Num(5), Num(6)>>))

(***************************************************************************)
(* The lexer (lex.go).  A rune is a string of one character and EofRune is *)
(* apart from them.  The reader rd is the sequence of the runes not yet    *)
(* read: l.back and l.peek keep one rune, which is always the rune read    *)
(* last, so the rune kept is the head of rd.  The map atoms belongs to the *)
(* process and is handed from call to call.                                *)
(***************************************************************************)
EofRune == "EofRune"

\* read: the rune and the reader after it.
read(rd) ==
  IF rd = <<>> THEN [r |-> EofRune, rd |-> <<>>]
  ELSE [r |-> Head(rd), rd |-> Tail(rd)]

peek(rd) == read(rd).r

isSpace(r) == r \in {" ", "\t", "\n", "\r"}

DigitRunes == {"0", "1", "2", "3", "4", "5", "6", "7", "8", "9"}

\* isNumber of lex.go, a rune's.
isNumberRune(r) == r \in DigitRunes

\* unicode.IsLetter, for the letters the model writes.
LetterRunes ==
  {"E", "O", "F", "T", "a", "b", "c", "d", "e", "i", "l", "n", "o", "q", "r",
   "t", "u", "x"}

isAlphanum(r) == r = "_" \/ isNumberRune(r) \/ r \in LetterRunes

\* A token: typ, text and num.
Token(typ, text) == [typ |-> typ, text |-> text, num |-> 0]

number(num) == [typ |-> "tokenNumber", text |-> "", num |-> num]

DigitVal ==
  [r \in DigitRunes |->
     CASE r = "0" -> 0 [] r = "1" -> 1 [] r = "2" -> 2 [] r = "3" -> 3
       [] r = "4" -> 4 [] r = "5" -> 5 [] r = "6" -> 6 [] r = "7" -> 7
       [] r = "8" -> 8 [] r = "9" -> 9]

\* The value of digits in a base, the most significant first.
RECURSIVE ValueOf(_, _, _)
ValueOf(digits, base, acc) ==
  IF digits = <<>> THEN acc
  ELSE ValueOf(Tail(digits), base, acc * base + DigitVal[Head(digits)])

\* z.SetString(text, 0) for a sign and digits: a leading 0 makes it octal.
SetString(buf) ==
  LET signed == buf # <<>> /\ Head(buf) \in {"-", "+"}
      digits == IF signed THEN Tail(buf) ELSE buf
      octal == Len(digits) > 1 /\ Head(digits) = "0"
      base == IF octal THEN 8 ELSE 10
      ok == /\ digits # <<>>
            /\ \A i \in 1..Len(digits) :
                 digits[i] \in DigitRunes /\ DigitVal[digits[i]] < base
      abs == IF ok THEN ValueOf(digits, base, 0) ELSE 0
  IN  [ok |-> ok, num |-> IF signed /\ Head(buf) = "-" THEN 0 - abs ELSE abs]

\* The tokens made while the package is initialised.
PredefinedAtoms ==
  {"add", "and", "apply", "atom", "car", "cdr", "cond", "cons", "defn", "div",
   "eq", "ge", "lambda", "gt", "λ", "le", "list", "lt", "mul", "ne", "or",
   "null", "quote", "rem", "sub"}

atoms0 ==
  [text \in Constants \cup PredefinedAtoms |->
     Token(IF text \in Constants THEN "tokenConst" ELSE "tokenAtom", text)]

\* mkToken: the token, the map after, and the error if any.
mkToken(atoms, typ, buf) ==
  IF typ = "tokenNumber"
  THEN IF ~SetString(buf).ok
       THEN [tok |-> Token("tokenError", ""), atoms |-> atoms,
             err |-> ErrArg("bad number syntax: %s", Join(buf))]
       ELSE [tok |-> number(SetString(buf).num), atoms |-> atoms,
             err |-> NoErr]
  ELSE LET text == Join(buf)
       IN  IF text \in DOMAIN atoms
           THEN [tok |-> atoms[text], atoms |-> atoms, err |-> NoErr]
           ELSE [tok |-> Token(typ, text),
                 atoms |-> [t \in DOMAIN atoms \cup {text} |->
                              IF t = text THEN Token(typ, text) ELSE atoms[t]],
                 err |-> NoErr]

\* skipToNewline: the reader after the runes up to and with the newline.
RECURSIVE skipToNewline(_)
skipToNewline(rd) ==
  IF rd = <<>> THEN rd
  ELSE IF Head(rd) = "\n" THEN Tail(rd)
  ELSE skipToNewline(Tail(rd))

\* accum, after buf was reset and the first rune written: the buffer and
\* the reader, the rune that is not valid put back.
RECURSIVE accum(_, _, _)
accum(buf, rd, Valid) ==
  IF rd = <<>> \/ Head(rd) \notin Valid THEN [buf |-> buf, rd |-> rd]
  ELSE accum(Append(buf, Head(rd)), Tail(rd), Valid)

\* endToken: whether the rune that follows does not end the token.
endTokenFails(rd) ==
  LET r == peek(rd)
  IN  isAlphanum(r) \/ (~isSpace(r) /\ r \notin {"(", ")", ".", EofRune})

\* l.number and l.alphanum: accum, endToken, mkToken.
lexWord(atoms, typ, r, rd, Valid) ==
  LET a == accum(<<r>>, rd, Valid)
      m == mkToken(atoms, typ, a.buf)
  IN  IF endTokenFails(a.rd)
      THEN [tok |-> Token("tokenError", ""), atoms |-> atoms, rd |-> a.rd,
            err |-> ErrArg("invalid token after %s", Join(a.buf))]
      ELSE [tok |-> m.tok, atoms |-> m.atoms, rd |-> a.rd, err |-> m.err]

\* A token of one rune, or of the text EOF.
lexFixed(atoms, typ, buf, rd) ==
  LET m == mkToken(atoms, typ, buf)
  IN  [tok |-> m.tok, atoms |-> m.atoms, rd |-> rd, err |-> m.err]

\* next: the token, with the case of the switch that returned it, the map
\* and the reader after the call, and the error if it panicked.
RECURSIVE next(_, _)
next(rd, atoms) ==
  LET r == read(rd).r
      rest == read(rd).rd
      At(case, res) ==
        [case |-> case, tok |-> res.tok, atoms |-> res.atoms, rd |-> res.rd,
         err |-> res.err]
  IN  IF isSpace(r) THEN next(rest, atoms)
      ELSE IF r = ";" THEN next(skipToNewline(rest), atoms)
      ELSE IF r = EofRune
      THEN At("EofRune", lexFixed(atoms, "TokenEOF", <<"E", "O", "F">>, rest))
      ELSE IF r = "\n"
      THEN At("newline", lexFixed(atoms, "tokenNewline", <<r>>, rest))
      ELSE IF r = "(" THEN At("(", lexFixed(atoms, "tokenLpar", <<r>>, rest))
      ELSE IF r = ")" THEN At(")", lexFixed(atoms, "tokenRpar", <<r>>, rest))
      ELSE IF r = "." THEN At(".", lexFixed(atoms, "tokenDot", <<r>>, rest))
      ELSE IF r \in {"-", "+"} /\ ~isNumberRune(peek(rest))
      THEN At("sign", lexFixed(atoms, "tokenChar", <<r>>, rest))
      ELSE IF r \in {"-", "+"} \/ isNumberRune(r)
      THEN At("number", lexWord(atoms, "tokenNumber", r, rest, DigitRunes))
      ELSE IF r = "'" THEN At("'", lexFixed(atoms, "tokenQuote", <<r>>, rest))
      ELSE IF r = "_" \/ r \in LetterRunes
      THEN At("alphanum",
              lexWord(atoms, "tokenAtom", r, rest,
                      {"_"} \cup DigitRunes \cup LetterRunes))
      ELSE At("default", lexFixed(atoms, "tokenChar", <<r>>, rest))

(***************************************************************************)
(* The lexer called on its own: a lexer is made for a stream of runes and  *)
(* next is called until the stream has been over for a while; then a lexer *)
(* may be made for another stream, as main does for each file it loads and *)
(* for standard input.                                                     *)
(***************************************************************************)
\* The lexers a process makes, and the calls of next at the end of a stream.
MaxLexers == 2
MaxAtEnd == 2

Streams ==
  {<<>>,
   <<" ">>,
   <<"E", "O", "F">>,
   <<"E", "O", "F", " ", "E", "O", "F", "\n">>,
   <<"(", "E", "O", "F", " ", ".", " ", "F", ")">>,
   <<"a", " ", "'", "T">>,
   <<"n", "i", "l", "\n">>,
   <<"-", "1", "2", " ", "+", " ", "0", "1", "0">>,
   <<"0", "8">>,
   <<"1", "a">>,
   <<"a", "*">>,
   <<";", "E", "O", "F", "\n", "b">>,
   <<"*", "E", "O", "F", "\n">>}

NewLexer(rd, atoms, n) ==
  [of |-> "lex", rd |-> rd, atoms |-> atoms, lexers |-> n, atEnd |-> 0,
   case |-> "none", tok |-> Token("tokenError", ""), err |-> NoErr]

InitLex ==
  /\ NoInterpreter
  /\ \E rd \in Streams : test = NewLexer(rd, atoms0, 1)

\* l.next()
LexNext ==
  /\ test.of = "lex"
  /\ test.err = NoErr
  /\ test.atEnd < MaxAtEnd
  /\ \E n \in {next(test.rd, test.atoms)} :
         test' = [of |-> "lex", rd |-> n.rd, atoms |-> n.atoms,
                  lexers |-> test.lexers,
                  atEnd |-> IF n.case = "EofRune" THEN test.atEnd + 1
                            ELSE test.atEnd,
                  case |-> n.case, tok |-> n.tok, err |-> n.err]
  /\ UNCHANGED interpreter

\* newLexer(rd), in the same process.
LexNewLexer ==
  /\ test.of = "lex"
  /\ test.lexers < MaxLexers
  /\ \E rd \in Streams : test' = NewLexer(rd, test.atoms, test.lexers + 1)
  /\ UNCHANGED interpreter

NextLex == LexNext \/ LexNewLexer

SpecLex == InitLex /\ [][NextLex]_vars

(***************************************************************************)
(* C20.  Once the rune stream is exhausted, every call of next returns a   *)
(* token of kind EOF, whatever was lexed earlier in the process (an        *)
(* identifier spelled EOF included); and an identifier read from the input *)
(* is always returned with kind atom or constant, never with kind EOF,     *)
(* whatever tokens were interned before it.                                *)
(***************************************************************************)
\* The call of next that returned last found the stream exhausted,
LexedAtEnd == test.of = "lex" /\ test.err = NoErr /\ test.case = "EofRune"

\* or it read an identifier.
LexedIdentifier == test.of = "lex" /\ test.err = NoErr /\ test.case = "alphanum"

C20_EOFKind ==
  /\ LexedAtEnd => test.tok.typ = "TokenEOF"
  /\ LexedIdentifier => test.tok.typ \in {"tokenAtom", "tokenConst"}

(***************************************************************************)
(* Printing (parse.go).  A string is the sequence of its runes.            *)
(***************************************************************************)
DigitRune == [d \in 0..9 |-> CHOOSE r \in DigitRunes : DigitVal[r] = d]

\* fmt.Sprint of a number that is not negative, and of any number.
RECURSIVE SprintNat(_)
SprintNat(n) ==
  IF n < 10 THEN <<DigitRune[n]>>
  ELSE Append(SprintNat(n \div 10), DigitRune[n % 10])

Sprint(n) == IF n < 0 THEN <<"-">> \o SprintNat(0 - n) ELSE SprintNat(n)

\* token.String and token.buildString, of the token of an atom expression.
TokenString(tok) == IF tok.k = "num" THEN Sprint(tok.num) ELSE Chars(tok.text)

RECURSIVE SExprString(_)
SExprString(e) ==
  IF e = NIL THEN <<"n", "i", "l">>
  ELSE IF HasAtom(e) THEN TokenString(e)
  ELSE <<"(">> \o SExprString(e.car) \o <<" ", ".", " ">>
         \o SExprString(e.cdr) \o <<")">>

\* buildString, and its loop over the list e: what it writes.
RECURSIVE buildString(_, _), buildLoop(_, _)
buildString(e, simplifyQuote) ==
  IF e = NIL THEN <<"n", "i", "l">>
  ELSE IF HasAtom(e) THEN TokenString(e)
  ELSE IF simplifyQuote /\ getAtom(Car(e)) = tokQuote
  THEN <<"'">> \o buildString(Car(Cdr(e)), simplifyQuote)
  ELSE <<"(">> \o buildLoop(e, simplifyQuote) \o <<")">>

buildLoop(e, simplifyQuote) ==
  buildString(e.car, simplifyQuote)
    \o (IF e.cdr = NIL THEN <<>>
        ELSE IF HasAtom(e.cdr)
        THEN (IF TokText(e.cdr) = "nil" THEN <<>>
              ELSE <<" ", ".", " ">> \o buildString(e.cdr, simplifyQuote))
        ELSE <<" ">> \o buildLoop(e.cdr, simplifyQuote))

\* String, printSExpr not set.
String(e) == IF e = NIL THEN <<"n", "i", "l">> ELSE buildString(e, TRUE)

(***************************************************************************)
(* The parser (parse.go).  A parser is its lexer's reader, the map atoms   *)
(* and peekTok; a call gives the expression, the parser after the call and *)
(* the error if it panicked (or, for log.Fatal, ended the process).        *)
(***************************************************************************)
NoTok == Token("tokenError", "")

\* The one value of a set of one: {F(v) : v \in {x}} computes x once, and
\* so a call whose result is used several times is made once.
Once(S) == CHOOSE v \in S : TRUE

NewParser(rd, atoms) == [rd |-> rd, atoms |-> atoms, peekTok |-> NoTok]

\* Parser.next
parserNext(p) ==
  IF p.peekTok # NoTok
  THEN [tok |-> p.peekTok, p |-> [p EXCEPT !.peekTok = NoTok], err |-> NoErr]
  ELSE Once({[tok |-> n.tok, p |-> NewParser(n.rd, n.atoms), err |-> n.err] :
               n \in {next(p.rd, p.atoms)}})

\* Parser.back
back(p, tok) == [p EXCEPT !.peekTok = tok]

\* A token of the lexer as the evaluator holds a token, and its atomExpr.
TokenAtom(tok) ==
  IF tok.typ = "tokenNumber" THEN Num(tok.num) ELSE Atom(tok.text)

TokenExpr(tok) == atomExpr(TokenAtom(tok))

Parsed(e, p) == [e |-> e, p |-> p, err |-> NoErr]
Panicked(error, p) == [e |-> NIL, p |-> p, err |-> error]

AtomTypes == {"tokenAtom", "tokenConst", "tokenNumber"}

RECURSIVE SExpr(_), quote(_), List(_), lparList(_)
\* case tokenLpar of SExpr: car, the dot, cdr, the right parenthesis.
SExprPair(p) ==
  Once({
    IF car.err # NoErr THEN car
    ELSE Once({
      IF dot.err # NoErr THEN Panicked(dot.err, dot.p)
      ELSE IF dot.tok.typ # "tokenDot"
      THEN Panicked(ErrArg("expected dot, found ", TokenAtom(dot.tok)), dot.p)
      ELSE Once({
        IF cdr.err # NoErr THEN cdr
        ELSE Once({
          IF rpar.err # NoErr THEN Panicked(rpar.err, rpar.p)
          ELSE IF rpar.tok.typ # "tokenRpar"
          THEN Panicked(ErrArg("expected rPar, found ", TokenAtom(rpar.tok)),
                        rpar.p)
          ELSE Parsed(Cons(car.e, cdr.e), rpar.p) :
          rpar \in {parserNext(cdr.p)}}) :
        cdr \in {SExpr(dot.p)}}) :
      dot \in {parserNext(car.p)}}) :
    car \in {SExpr(p)}})

SExpr(p) ==
  Once({
    IF t.err # NoErr THEN Panicked(t.err, t.p)
    ELSE IF t.tok.typ = "TokenEOF" THEN Parsed(NIL, t.p)
    ELSE IF t.tok.typ = "tokenQuote" THEN quote(t.p)
    ELSE IF t.tok.typ \in AtomTypes THEN Parsed(TokenExpr(t.tok), t.p)
    ELSE IF t.tok.typ = "tokenLpar" THEN SExprPair(t.p)
    ELSE Panicked(ErrArg("bad token in SExpr: %q", TokenAtom(t.tok)), t.p) :
    t \in {parserNext(p)}})

quote(p) ==
  Once({
    IF l.err # NoErr THEN l
    ELSE Parsed(Cons(atomExpr(tokQuote), Cons(l.e, NIL)), l.p) :
    l \in {List(p)}})

\* case tokenLpar of List: the innards, then the right parenthesis.
ListPar(p) ==
  Once({
    IF expr.err # NoErr THEN expr
    ELSE Once({
      IF r.err # NoErr THEN Panicked(r.err, r.p)
      ELSE IF r.tok.typ = "tokenRpar" THEN Parsed(expr.e, r.p)
      ELSE Panicked(ErrArg("bad token in list: %q", TokenAtom(r.tok)), r.p) :
      r \in {parserNext(expr.p)}}) :
    expr \in {lparList(p)}})

List(p) ==
  Once({
    IF t.err # NoErr THEN Panicked(t.err, t.p)
    ELSE IF t.tok.typ = "TokenEOF" THEN Panicked(Err("eof"), t.p)
    ELSE IF t.tok.typ = "tokenQuote" THEN quote(t.p)
    ELSE IF t.tok.typ \in AtomTypes THEN Parsed(TokenExpr(t.tok), t.p)
    ELSE IF t.tok.typ = "tokenLpar" THEN ListPar(t.p)
    ELSE Panicked(ErrArg("bad token in list: %q", TokenAtom(t.tok)), t.p) :
    t \in {parserNext(p)}})

\* Cons(first, p.lparList()): the first of a list, then the rest of it.
lparCons(first) ==
  IF first.err # NoErr THEN first
  ELSE Once({
    IF rest.err # NoErr THEN rest
    ELSE Parsed(Cons(first.e, rest.e), rest.p) :
    rest \in {lparList(first.p)}})

lparList(p) ==
  Once({
    IF t.err # NoErr THEN Panicked(t.err, t.p)
    ELSE IF t.tok.typ = "tokenQuote"
    THEN Once({lparCons(q) : q \in {quote(t.p)}})
    ELSE IF t.tok.typ \in AtomTypes
    THEN lparCons(Parsed(TokenExpr(t.tok), t.p))
    ELSE IF t.tok.typ = "tokenDot" THEN List(t.p)
    ELSE IF t.tok.typ = "tokenLpar"
    THEN Once({lparCons(l) : l \in {List(back(t.p, t.tok))}})
    ELSE IF t.tok.typ = "tokenRpar" THEN Parsed(NIL, back(t.p, t.tok))
    ELSE Panicked(ErrArg("bad token parsing list: %q", TokenAtom(t.tok)),
                  t.p) :
    t \in {parserNext(p)}})

(***************************************************************************)
(* The parser and the printer called on their own, as the tests of         *)
(* parse_test.go call them: a source text is parsed, the expression is     *)
(* printed, and the text printed is parsed and printed again.              *)
(***************************************************************************)
SourceLeaves == {Atom("a"), constNIL, tokQuote, Num(12)}

\* Expressions whose S-expression and list prints are source texts.
SourceExprs ==
  LET small == SourceLeaves \cup Pairs(SourceLeaves)
  IN  small \cup Pairs(small)

\* Texts written with the quote mark or as lists.
QuoteSources ==
  {<<"'", "a">>,                                                  \* 'a
   <<"'", "'", "a">>,                                             \* ''a
   <<"'", "(", "a", ")">>,                                        \* '(a)
   <<"(", "'", "a", " ", "'", "a", ")">>,                         \* ('a 'a)
   <<"(", ")">>,                                                  \* ()
   <<"(", "q", "u", "o", "t", "e", " ", "a", " ", "a", ")">>,     \* (quote a a)
   <<"(", "q", "u", "o", "t", "e", ")">>,                         \* (quote)
   <<"(", "q", "u", "o", "t", "e", " ", ".", " ", "a", ")">>,     \* (quote . a)
   <<"(", "a", " ", ".", " ", "'", "a", ")">>,                    \* (a . 'a)
   <<"'", "(", "q", "u", "o", "t", "e", " ", "a", " ", "a", ")">>, \* '(quote a a)
   <<"(", "a", " ", "1", "2", " ", "n", "i", "l", ")">>,          \* (a 12 nil)
   <<>>}                                                          \* (nothing)

Sources ==
  {SExprString(e) : e \in SourceExprs} \cup {String(e) : e \in SourceExprs}
    \cup QuoteSources

\* The method of a name, called.
ParseWith(method, p) == IF method = "SExpr" THEN SExpr(p) ELSE List(p)

PrintWith(method, e) ==
  IF method = "SExprString" THEN SExprString(e) ELSE String(e)

\* The parser that reads what a printer writes.
ParserFor(method) == IF method = "SExprString" THEN "SExpr" ELSE "List"

InitParse ==
  /\ NoInterpreter
  /\ \E src \in Sources, parse \in {"SExpr", "List"},
        print \in {"SExprString", "String"} :
       test = [of |-> "parse", at |-> "source", parse |-> parse,
               print |-> print, src |-> src, atoms |-> atoms0, err |-> NoErr]

\* p := NewParser(strings.NewReader(src)); expr := p.SExpr(), or p.List()
ParseSource ==
  /\ test.of = "parse"
  /\ test.at = "source"
  /\ \E r \in {ParseWith(test.parse, NewParser(test.src, test.atoms))} :
         test' = [of |-> "parse",
                  at |-> IF r.err = NoErr THEN "parsed" ELSE "refused",
                  parse |-> test.parse, print |-> test.print,
                  src |-> test.src, atoms |-> r.p.atoms, err |-> r.err,
                  e |-> r.e]
  /\ UNCHANGED interpreter

\* str := expr.SExprString(), or expr.String()
PrintExpr ==
  /\ test.of = "parse"
  /\ test.at = "parsed"
  /\ test' = [of |-> "parse", at |-> "printed", parse |-> test.parse,
              print |-> test.print, src |-> test.src, atoms |-> test.atoms,
              err |-> NoErr, e |-> test.e,
              str |-> PrintWith(test.print, test.e)]
  /\ UNCHANGED interpreter

\* The text printed is parsed by a new parser of the same process,
ParseAgain ==
  /\ test.of = "parse"
  /\ test.at = "printed"
  /\ \E r \in {ParseWith(ParserFor(test.print),
                          NewParser(test.str, test.atoms))} :
         test' = [of |-> "parse",
                  at |-> IF r.err = NoErr THEN "reparsed" ELSE "lost",
                  parse |-> test.parse, print |-> test.print,
                  src |-> test.src, atoms |-> r.p.atoms, err |-> r.err,
                  e |-> test.e, str |-> test.str, e2 |-> r.e]
  /\ UNCHANGED interpreter

\* and what it gives is printed as the first expression was.
PrintAgain ==
  /\ test.of = "parse"
  /\ test.at = "reparsed"
  /\ test' = [of |-> "parse", at |-> "reprinted", parse |-> test.parse,
              print |-> test.print, src |-> test.src, atoms |-> test.atoms,
              err |-> NoErr, e |-> test.e, str |-> test.str, e2 |-> test.e2,
              str2 |-> PrintWith(test.print, test.e2)]
  /\ UNCHANGED interpreter

NextParse == ParseSource \/ PrintExpr \/ ParseAgain \/ PrintAgain

SpecParse == InitParse /\ [][NextParse]_vars

(***************************************************************************)
(* C15.  For every expression e that the parser builds from S-expression   *)
(* syntax (atoms, dotted pairs and quote), parsing SExprString(e) with the *)
(* S-expression parser yields an expression structurally equal to e, node  *)
(* for node (same atoms, same pair shape, same empty tails), and printing  *)
(* it again yields the same string.                                        *)
(***************************************************************************)
\* An expression was parsed and has been printed.
Printed ==
  /\ test.of = "parse"
  /\ test.at \in {"printed", "lost", "reparsed", "reprinted"}

\* The S-expression parser built an expression, not the nothing it returns
\* at the end of the input, and SExprString printed it.
C15_Case ==
  /\ Printed
  /\ test.parse = "SExpr"
  /\ test.print = "SExprString"
  /\ test.e # NIL

C15_SExprRoundTrip ==
  C15_Case =>
    /\ test.at # "lost"
    /\ test.at \in {"reparsed", "reprinted"} => test.e2 = test.e
    /\ test.at = "reprinted" => test.str2 = test.str

(***************************************************************************)
(* C16.  For every expression e without raw-character atoms (built by      *)
(* either parser or by cons and list during evaluation), parsing the       *)
(* list-mode print String(e) with the list parser yields an expression     *)
(* deep-equal to e: no element is lost, and proper lists, dotted tails,    *)
(* nil atoms and pairs headed by quote are all reconstructed as they were. *)
(***************************************************************************)
\* An expression built from a source text was printed in list mode.
C16_Case == Printed /\ test.print = "String" /\ test.src # <<>>

C16_ListRoundTrip ==
  C16_Case =>
    /\ test.at # "lost"
    /\ test.at \in {"reparsed", "reprinted"} => test.e2 = test.e

(***************************************************************************)
(* C17.  In list mode a pair is printed with quote sugar 'X exactly when   *)
(* its head is the quote atom and its tail is a one-element list (X),      *)
(* recursively for nested quotes; a pair headed by quote with any other    *)
(* tail (no argument, more than one argument, or an atom tail) is printed  *)
(* as an ordinary parenthesised list showing all of its elements.          *)
(* Conversely parsing 'X yields the pair (quote X) whose tail is a         *)
(* one-element list.                                                       *)
(***************************************************************************)
\* (quote X): the tail is a pair that ends the list.
QuoteForm(e) ==
  /\ e.k = "pair"
  /\ e.car = tokQuote
  /\ e.cdr.k = "pair"
  /\ e.cdr.cdr \in {NIL, constNIL}

\* A pair was printed in list mode.
C17_Case == Printed /\ test.print = "String" /\ test.e.k = "pair"

C17_Printed ==
  C17_Case =>
    /\ Head(test.str) = "'" <=> QuoteForm(test.e)
    /\ QuoteForm(test.e) => test.str = <<"'">> \o String(test.e.cdr.car)
    /\ ~QuoteForm(test.e) => Head(test.str) = "("

C17_Parsed ==
  (test.of = "parse" /\ test.at = "parsed" /\ test.src # <<>>
     /\ Head(test.src) = "'")
    => QuoteForm(test.e) /\ test.e.cdr.cdr = NIL

C17_QuoteSugar == C17_Printed /\ C17_Parsed

(***************************************************************************)
(* C21.  The value of the constant nil and the empty list (the value of    *)
(* '(), of (), or of the cdr of a one-element list) are the same empty     *)
(* value to the elementary predicates: (null nil) returns T, (eq nil '())  *)
(* returns T, and null returns T for every value that prints as nil.       *)
(***************************************************************************)
\* null is being applied to an argument that prints as nil.
C21_NullOfNil ==
  /\ pc = "run"
  /\ ctl.op = "apply"
  /\ ctl.fn = Atom("null")
  /\ String(Car(ctl.x)) = <<"n", "i", "l">>

C21_Applied ==
  (C21_NullOfNil /\ nApply' = nApply + 1)
    => pc' = "run" /\ ctl' = [op |-> "ret", v |-> constT]

C21_Lines ==
  Returned =>
    /\ cur = Call("null", <<constNIL>>) => out = <<constT>>
    /\ cur = Call("null", <<Quoted(NIL)>>) => out = <<constT>>
    /\ cur = Call("null", <<Call("cdr", <<Quoted(ListOf(<<Atom("a")>>))>>)>>)
         => out = <<constT>>
    /\ cur = Call("eq", <<constNIL, Quoted(NIL)>>) => out = <<constT>>

C21_NilIsEmpty == [](C21_Lines) /\ [][C21_Applied]_vars

(***************************************************************************)
(* The arithmetic functions called on their own: the calls that evaluate   *)
(* (add (mul (div a b) b) (rem a b)) makes, in the order evlis makes them, *)
(* or the one call of (rem a b).                                           *)
(***************************************************************************)
\* The operands are drawn from -MaxOperand..MaxOperand.
MaxOperand == 4

Operands == (0 - MaxOperand)..MaxOperand

InitMath ==
  /\ NoInterpreter
  /\ \E a \in Operands, b \in Operands, form \in {"sum", "rem"} :
       test = [of |-> "math", form |-> form,
               at |-> IF form = "sum" THEN "div" ELSE "rem",
               a |-> a, b |-> b, err |-> NoErr]

\* What a call leaves: its value under a new name, or the error it raised.
MathCalled(name, r, then) ==
  IF r.err # NoErr THEN [test EXCEPT !.at = "raised", !.err = r.err]
  ELSE [n \in DOMAIN test \cup {name} |->
          IF n = name THEN r.v ELSE IF n = "at" THEN then ELSE test[n]]

\* divFunc: (div a b)
CallDiv ==
  /\ test.of = "math"
  /\ test.at = "div"
  /\ \E r \in {elemCall("div", Atom("div"),
                        ListOf(<<Num(test.a), Num(test.b)>>))} :
       test' = MathCalled("quotient", r, "mul")
  /\ UNCHANGED interpreter

\* mulFunc: (mul (div a b) b)
CallMul ==
  /\ test.of = "math"
  /\ test.at = "mul"
  /\ \E r \in {elemCall("mul", Atom("mul"),
                        ListOf(<<test.quotient, Num(test.b)>>))} :
       test' = MathCalled("product", r, "rem")
  /\ UNCHANGED interpreter

\* remFunc: (rem a b)
CallRem ==
  /\ test.of = "math"
  /\ test.at = "rem"
  /\ \E r \in {elemCall("rem", Atom("rem"),
                        ListOf(<<Num(test.a), Num(test.b)>>))} :
       test' = MathCalled("remainder", r,
                          IF test.form = "sum" THEN "add" ELSE "done")
  /\ UNCHANGED interpreter

\* addFunc: (add (mul (div a b) b) (rem a b))
CallAdd ==
  /\ test.of = "math"
  /\ test.at = "add"
  /\ \E r \in {elemCall("add", Atom("add"),
                        ListOf(<<test.product, test.remainder>>))} :
       test' = MathCalled("sum", r, "done")
  /\ UNCHANGED interpreter

NextMath == CallDiv \/ CallMul \/ CallRem \/ CallAdd

SpecMath == InitMath /\ [][NextMath]_vars

(***************************************************************************)
(* C22.  For all integers a and all nonzero integers b, negative values    *)
(* included, div and rem are consistent with each other:                   *)
(* (add (mul (div a b) b) (rem a b)) equals a; for b = 0 both div and rem  *)
(* raise an error and produce no value.                                    *)
(***************************************************************************)
C22_Consistent ==
  (test.of = "math" /\ test.b # 0)
    => /\ test.at # "raised"
       /\ (test.form = "sum" /\ test.at = "done") => test.sum = Num(test.a)

C22_ByZero ==
  (test.of = "math" /\ test.b = 0)
    => /\ test.at \in {"div", "rem", "raised"}
       /\ test.at = "raised"
            => /\ test.err = IF test.form = "sum" THEN Err("division by zero")
                             ELSE Err("rem by zero")
               /\ DOMAIN test \cap {"quotient", "remainder"} = {}

C22_DivRemConsistent == C22_Consistent /\ C22_ByZero

====
